---- MODULE Spec2Model ----
(***************************************************************************)
(* A model of the LaTeX document engine of jaXiv's backend:                *)
(*   utils/latex_parser.py            LatexParser                          *)
(*   utils/latex_project_analyzer.py  LatexProjectAnalyzer                 *)
(*   utils/latex_validator.py         LatexValidator                       *)
(*   utils/latex_translator_base.py   BaseLatexTranslator                  *)
(*                                                                         *)
(* A Python str is a sequence of one-character strings.  Positions are     *)
(* 0-based and spans are half-open, as in Python: the character at         *)
(* position p of s is s[p + 1].  A full-width character, which a TLA+      *)
(* string literal cannot hold, is the one-element token "FW" followed by   *)
(* its ASCII counterpart ("FW(" is U+FF08).  Every regular expression of   *)
(* the code is a matcher: given the string and a position it returns the   *)
(* end of the match that Python's re finds there, or NoMatch.              *)
(***************************************************************************)
EXTENDS Integers, Sequences, FiniteSets, TLC

NoMatch == 0 - 1

BS == "\\"
NL == "\n"

Lower == {"a","b","c","d","e","f","g","h","i","j","k","l","m",
          "n","o","p","q","r","s","t","u","v","w","x","y","z"}
Upper == {"A","B","C","D","E","F","G","H","I","J","K","L","M",
          "N","O","P","Q","R","S","T","U","V","W","X","Y","Z"}
\* [a-zA-Z]
IsLetter(c) == c \in Lower \cup Upper
\* \s and the characters str.strip() removes
IsSpace(c) == c \in {" ", "\n", "\t", "\r", "\f"}
\* [0-9]
IsDigit(c) == c \in {"0","1","2","3","4","5","6","7","8","9"}

Min(S) == CHOOSE x \in S : \A y \in S : x <= y
Max(S) == CHOOSE x \in S : \A y \in S : x >= y

\* F(x): the value x named inside F
With(x, F(_)) == F(x)

\* the least p of a..b with Cond(p), NoMatch when there is none
FirstIn(a, b, Cond(_)) ==
    LET P == {p \in a..b : Cond(p)}
    IN IF P = {} THEN NoMatch ELSE Min(P)

\* s[a:b]
Slice(s, a, b) == IF b <= a THEN <<>> ELSE [k \in 1..(b - a) |-> s[a + k]]

\* s.startswith(lit, i)
StartsAt(s, i, lit) ==
    /\ i >= 0
    /\ i + Len(lit) <= Len(s)
    /\ \A k \in 1..Len(lit) : s[i + k] = lit[k]

\* s.find(lit, from), NoMatch when absent
Find(s, lit, from) ==
    FirstIn(from, Len(s) - Len(lit), LAMBDA p : StartsAt(s, p, lit))

\* the first position >= from holding a character of the set C
FindChar(s, C, from) ==
    FirstIn(from, Len(s) - 1, LAMBDA p : s[p + 1] \in C)

\* the end of the maximal run of letters starting at i
LettersEnd(s, i) ==
    LET q == FirstIn(i, Len(s) - 1, LAMBDA p : ~IsLetter(s[p + 1]))
    IN IF q = NoMatch THEN Len(s) ELSE q

\* the end of the maximal run of whitespace starting at i
SpacesEnd(s, i) ==
    LET q == FirstIn(i, Len(s) - 1, LAMBDA p : ~IsSpace(s[p + 1]))
    IN IF q = NoMatch THEN Len(s) ELSE q

\* s.strip()
Strip(s) ==
    LET P == {p \in 0..(Len(s) - 1) : ~IsSpace(s[p + 1])}
    IN IF P = {} THEN <<>> ELSE Slice(s, Min(P), Max(P) + 1)

\* s.count(c)
Count(s, c) == Cardinality({k \in 1..Len(s) : s[k] = c})

RECURSIVE Concat(_)
\* ''.join(parts)
Concat(parts) ==
    IF parts = <<>> THEN <<>> ELSE Head(parts) \o Concat(Tail(parts))

(***************************************************************************)
(* LatexParser._compile_patterns                                            *)
(***************************************************************************)

\* \{([^}]+)\}  at b: the end of the match; the group is Slice(s, b+1, end-1)
BraceArg(s, b) ==
    IF ~StartsAt(s, b, <<"{">>) THEN NoMatch
    ELSE LET q == FindChar(s, {"}"}, b + 1)
         IN IF q = NoMatch \/ q = b + 1 THEN NoMatch ELSE q + 1

\* \$([^$]+)\$
math_inline_pattern(s, i) ==
    IF ~StartsAt(s, i, <<"$">>) THEN NoMatch
    ELSE LET q == FindChar(s, {"$"}, i + 1)
         IN IF q = NoMatch \/ q = i + 1 THEN NoMatch ELSE q + 1

\* \$\$([^$]+)\$\$|\\\[(.*?)\\\]   (DOTALL)
math_display_pattern(s, i) ==
    IF StartsAt(s, i, <<"$", "$">>)
    THEN LET q == FindChar(s, {"$"}, i + 2)
         IN IF q = NoMatch \/ q = i + 2 \/ ~StartsAt(s, q, <<"$", "$">>)
            THEN NoMatch ELSE q + 2
    ELSE IF StartsAt(s, i, <<BS, "[">>)
    THEN LET q == Find(s, <<BS, "]">>, i + 2)
         IN IF q = NoMatch THEN NoMatch ELSE q + 2
    ELSE NoMatch

\* (\[.*?\])?  at e, when nothing that can fail follows: . stops at a newline
OptBracket(s, e) ==
    IF ~StartsAt(s, e, <<"[">>) THEN e
    ELSE LET q == FindChar(s, {"]", NL}, e + 1)
         IN IF q = NoMatch \/ s[q + 1] = NL THEN e ELSE q + 1

RECURSIVE BraceGroups(_, _)
\* ({.*?})*  at e, the last part of the command pattern
BraceGroups(s, e) ==
    IF ~StartsAt(s, e, <<"{">>) THEN e
    ELSE LET q == FindChar(s, {"}", NL}, e + 1)
         IN IF q = NoMatch \/ s[q + 1] = NL THEN e ELSE BraceGroups(s, q + 1)

\* ([a-zA-Z]+) of the command pattern at i: the end of the name
CommandNameEnd(s, i) == LettersEnd(s, i + 1)

\* \\([a-zA-Z]+)(\*?)(\[.*?\])?({.*?})*
command_pattern(s, i) ==
    IF ~StartsAt(s, i, <<BS>>) THEN NoMatch
    ELSE LET e1 == CommandNameEnd(s, i)
             e2 == IF StartsAt(s, e1, <<"*">>) THEN e1 + 1 ELSE e1
         IN IF e1 = i + 1 THEN NoMatch
            ELSE BraceGroups(s, OptBracket(s, e2))

BeginLit == <<BS, "b", "e", "g", "i", "n", "{">>
EndLit == <<BS, "e", "n", "d", "{">>

\* group 1 of the environment pattern at i, <<>> when \begin{X} does not match
BeginName(s, i) ==
    IF ~StartsAt(s, i, BeginLit) THEN <<>>
    ELSE LET q == FindChar(s, {"}"}, i + Len(BeginLit))
         IN IF q = NoMatch THEN <<>> ELSE Slice(s, i + Len(BeginLit), q)

\* \\begin\{([^}]+)\}(.*?)\\end\{\1\}   (DOTALL)
environment_pattern(s, i) ==
    LET name == BeginName(s, i)
        closing == EndLit \o name \o <<"}">>
        q == Find(s, closing, i + Len(BeginLit) + Len(name) + 1)
    IN IF name = <<>> \/ q = NoMatch THEN NoMatch ELSE q + Len(closing)

CiteLit == <<BS, "c", "i", "t", "e">>

\* (?:\[.*?\])?  of the citation pattern at a: the position of the "{" that
\* opens the key group.  The lazy bracket group grows past a "]" until the key
\* group matches behind it, and gives up at a newline
CiteBrace(s, a) ==
    IF StartsAt(s, a, <<"[">>)
    THEN LET nl == FindChar(s, {NL}, a + 1)
             lim == IF nl = NoMatch THEN Len(s) ELSE nl
             q == FirstIn(a + 1, lim - 1,
                          LAMBDA p : s[p + 1] = "]" /\ BraceArg(s, p + 1) # NoMatch)
         IN IF q = NoMatch THEN NoMatch ELSE q + 1
    ELSE a

\* the position of the key group's "{" in a match of the citation pattern at i
CiteKeyAt(s, i) ==
    IF ~StartsAt(s, i, CiteLit) THEN NoMatch
    ELSE LET a == i + Len(CiteLit)
         IN IF StartsAt(s, a, <<"*">>) THEN CiteBrace(s, a + 1) ELSE CiteBrace(s, a)

\* \\cite\*?(?:\[.*?\])?\{([^}]+)\}
citation_pattern(s, i) ==
    IF CiteKeyAt(s, i) = NoMatch THEN NoMatch ELSE BraceArg(s, CiteKeyAt(s, i))

RefNames == { <<"r","e","f">>, <<"p","a","g","e","r","e","f">>,
              <<"a","u","t","o","r","e","f">>, <<"n","a","m","e","r","e","f">>,
              <<"e","q","r","e","f">>, <<"c","r","e","f">>, <<"C","r","e","f">> }

\* the position of the key group's "{" in a match of the reference pattern at i
RefKeyAt(s, i) ==
    IF ~StartsAt(s, i, <<BS>>) THEN NoMatch
    ELSE LET B == {b \in {IF StartsAt(s, i + 1 + Len(n), <<"*">>)
                          THEN i + 2 + Len(n) ELSE i + 1 + Len(n) :
                          n \in {m \in RefNames : StartsAt(s, i + 1, m)}} :
                      BraceArg(s, b) # NoMatch}
         IN IF B = {} THEN NoMatch ELSE Min(B)

\* \\(?:ref|pageref|autoref|nameref|eqref|cref|Cref)\*?\{([^}]+)\}
reference_pattern(s, i) ==
    IF RefKeyAt(s, i) = NoMatch THEN NoMatch ELSE BraceArg(s, RefKeyAt(s, i))

LabelLit == <<BS, "l", "a", "b", "e", "l">>

\* \\label\{([^}]+)\}
label_pattern(s, i) ==
    IF ~StartsAt(s, i, LabelLit) THEN NoMatch ELSE BraceArg(s, i + Len(LabelLit))

\* (?<!\\)%.*$   (MULTILINE)
comment_pattern(s, i) ==
    IF ~StartsAt(s, i, <<"%">>) \/ StartsAt(s, i - 1, <<BS>>) THEN NoMatch
    ELSE LET q == FindChar(s, {NL}, i + 1)
         IN IF q = NoMatch THEN Len(s) ELSE q

RECURSIVE FindIter(_, _, _)
\* pattern.finditer(s), from position pos on: the spans <<start, end>> of the
\* non-overlapping matches, leftmost first (no pattern matches the empty string)
FindIter(Pat(_, _), s, pos) ==
    LET p == FirstIn(pos, Len(s) - 1, LAMBDA q : Pat(s, q) # NoMatch)
        e == Pat(s, p)
    IN IF p = NoMatch THEN <<>>
       ELSE <<<<p, e>>>> \o FindIter(Pat, s, e)


(***************************************************************************)
(* LatexParser                                                              *)
(***************************************************************************)

NON_TRANSLATABLE_COMMANDS == {
    <<"c","i","t","e">>, <<"r","e","f">>, <<"l","a","b","e","l">>,
    <<"i","n","c","l","u","d","e","g","r","a","p","h","i","c","s">>,
    <<"i","n","p","u","t">>, <<"i","n","c","l","u","d","e">>,
    <<"d","o","c","u","m","e","n","t","c","l","a","s","s">>,
    <<"u","s","e","p","a","c","k","a","g","e">>,
    <<"n","e","w","c","o","m","m","a","n","d">>,
    <<"r","e","n","e","w","c","o","m","m","a","n","d">>,
    <<"d","e","f">>, <<"l","e","t">>, <<"u","r","l">>, <<"h","r","e","f">>,
    <<"h","y","p","e","r","r","e","f">>, <<"p","a","g","e","r","e","f">>,
    <<"a","u","t","o","r","e","f">>, <<"n","a","m","e","r","e","f">>,
    <<"e","q","r","e","f">>, <<"c","r","e","f">>, <<"C","r","e","f">> }

NON_TRANSLATABLE_ENVIRONMENTS == {
    <<"e","q","u","a","t","i","o","n">>, <<"a","l","i","g","n">>,
    <<"g","a","t","h","e","r">>, <<"m","u","l","t","l","i","n","e">>,
    <<"f","l","a","l","i","g","n">>, <<"a","l","i","g","n","a","t">>,
    <<"e","q","n","a","r","r","a","y">>,
    <<"d","i","s","p","l","a","y","m","a","t","h">>,
    <<"v","e","r","b","a","t","i","m">>,
    <<"l","s","t","l","i","s","t","i","n","g">>, <<"m","i","n","t","e","d">>,
    <<"a","l","g","o","r","i","t","h","m">>,
    <<"a","l","g","o","r","i","t","h","m","i","c">>,
    <<"t","i","k","z","p","i","c","t","u","r","e">>,
    <<"p","g","f","p","i","c","t","u","r","e">> }

NoMeta == <<>>

\* LatexElement(type, content = match.group(0), start_pos, end_pos, ...)
LatexElement(ty, s, span, tr, meta) ==
    [type |-> ty, content |-> Slice(s, span[1], span[2]),
     start_pos |-> span[1], end_pos |-> span[2],
     should_translate |-> tr, metadata |-> meta]

\* the elements of one pattern's matches, in match order
ElementsOf(spans, Mk(_)) == [k \in 1..Len(spans) |-> Mk(spans[k])]

SelectElems(es, Keep(_)) == SelectSeq(es, Keep)

_find_math_elements(content) ==
    LET display == ElementsOf(FindIter(math_display_pattern, content, 0),
                     LAMBDA m : LatexElement("math_display", content, m, FALSE, NoMeta))
        Outside(m) == ~\E k \in 1..Len(display) :
                          display[k].start_pos <= m[1] /\ m[1] < display[k].end_pos
        inline == ElementsOf(SelectSeq(FindIter(math_inline_pattern, content, 0), Outside),
                     LAMBDA m : LatexElement("math_inline", content, m, FALSE, NoMeta))
    IN display \o inline

_find_environments(content) ==
    ElementsOf(FindIter(environment_pattern, content, 0),
        LAMBDA m : LET env_name == BeginName(content, m[1])
                   IN LatexElement("environment", content, m,
                                   env_name \notin NON_TRANSLATABLE_ENVIRONMENTS,
                                   [environment |-> env_name]))

_find_commands(content) ==
    ElementsOf(FindIter(command_pattern, content, 0),
        LAMBDA m : LET command_name == Slice(content, m[1] + 1, CommandNameEnd(content, m[1]))
                   IN LatexElement("command", content, m,
                                   command_name \notin NON_TRANSLATABLE_COMMANDS,
                                   [command |-> command_name]))

_find_citations_and_references(content) ==
    ElementsOf(FindIter(citation_pattern, content, 0),
        LAMBDA m : LatexElement("citation", content, m, FALSE,
                      [keys |-> Slice(content, CiteKeyAt(content, m[1]) + 1, m[2] - 1)]))
    \o
    ElementsOf(FindIter(reference_pattern, content, 0),
        LAMBDA m : LatexElement("reference", content, m, FALSE,
                      [key |-> Slice(content, RefKeyAt(content, m[1]) + 1, m[2] - 1)]))
    \o
    ElementsOf(FindIter(label_pattern, content, 0),
        LAMBDA m : LatexElement("label", content, m, FALSE,
                      [key |-> Slice(content, m[1] + Len(LabelLit) + 1, m[2] - 1)]))

_find_comments(content) ==
    ElementsOf(FindIter(comment_pattern, content, 0),
        LAMBDA m : LatexElement("comment", content, m, FALSE, NoMeta))

RECURSIVE SortByStart(_)
\* elements.sort(key=lambda x: x.start_pos): stable
SortByStart(es) ==
    IF es = <<>> THEN <<>>
    ELSE LET m == Min({es[k].start_pos : k \in 1..Len(es)})
             first == Min({k \in 1..Len(es) : es[k].start_pos = m})
         IN <<es[first]>> \o
            SortByStart(SubSeq(es, 1, first - 1) \o SubSeq(es, first + 1, Len(es)))

\* a Text element whose content is the stripped gap
TextElementStripped(content, a, b) ==
    [type |-> "text", content |-> Strip(Slice(content, a, b)), start_pos |-> a,
     end_pos |-> b, should_translate |-> TRUE, metadata |-> NoMeta]

TextElement(content, a, b) ==
    [type |-> "text", content |-> Slice(content, a, b), start_pos |-> a,
     end_pos |-> b, should_translate |-> TRUE, metadata |-> NoMeta]

\* the gap content[a:b] as a Text element, unless it is whitespace only
GapText(content, a, b) ==
    IF Strip(Slice(content, a, b)) # <<>> THEN <<TextElement(content, a, b)>> ELSE <<>>

RECURSIVE FillLoop(_, _, _, _, _)
\* the loop of _fill_text_elements over elements[k..], then the tail
FillLoop(content, elements, k, last_end, result) ==
    IF k > Len(elements)
    THEN IF last_end < Len(content)
         THEN result \o GapText(content, last_end, Len(content))
         ELSE result
    ELSE LET elem == elements[k]
             gap == IF elem.start_pos > last_end
                    THEN GapText(content, last_end, elem.start_pos) ELSE <<>>
         IN FillLoop(content, elements, k + 1, elem.end_pos, result \o gap \o <<elem>>)

\* a fill that gives a whitespace-only input no Text element
_fill_text_elements_dropping_blank(content, elements) ==
    IF elements = <<>>
    THEN GapText(content, 0, Len(content))
    ELSE FillLoop(content, elements, 1, 0, <<>>)

_fill_text_elements(content, elements) ==
    IF elements = <<>>
    THEN <<TextElement(content, 0, Len(content))>>
    ELSE FillLoop(content, elements, 1, 0, <<>>)

\* LatexParser.parse
parse(latex_content) ==
    _fill_text_elements(latex_content,
        SortByStart(_find_math_elements(latex_content)
                    \o _find_environments(latex_content)
                    \o _find_commands(latex_content)
                    \o _find_citations_and_references(latex_content)
                    \o _find_comments(latex_content)))

\* the loop of extract_translatable_text, with the stripped content in place
\* of the content
TranslatablePartsStripped(elements) ==
    LET texts == SelectSeq(elements,
                     LAMBDA e : e.should_translate /\ e.type = "text"
                                /\ Strip(e.content) # <<>>)
    IN [k \in 1..Len(texts) |->
            <<Strip(texts[k].content), texts[k].start_pos, texts[k].end_pos>>]

\* the loop of extract_translatable_text over the parsed elements
TranslatableParts(elements) ==
    LET texts == SelectSeq(elements,
                     LAMBDA e : e.should_translate /\ e.type = "text"
                                /\ Strip(e.content) # <<>>)
    IN [k \in 1..Len(texts) |->
            <<texts[k].content, texts[k].start_pos, texts[k].end_pos>>]

\* LatexParser.extract_translatable_text: <<text, start, end>> per Text element
extract_translatable_text(latex_content) == TranslatableParts(parse(latex_content))

RECURSIVE SpliceLoop(_, _, _, _, _)
\* the loop of preserve_structure over translated_parts[k..], then the tail
SpliceLoop(original, translated_parts, k, last_end, result) ==
    IF k > Len(translated_parts)
    THEN IF last_end < Len(original)
         THEN result \o Slice(original, last_end, Len(original))
         ELSE result
    ELSE LET part == translated_parts[k]
             kept == IF part[2] > last_end
                     THEN Slice(original, last_end, part[2]) ELSE <<>>
         IN SpliceLoop(original, translated_parts, k + 1, part[3],
                       result \o kept \o part[1])

\* a preserve_structure that starts copying at the first replacement, leaving
\* out the original text before it
preserve_structure_without_head(original, translated_parts) ==
    IF translated_parts = <<>> THEN original
    ELSE SpliceLoop(original, translated_parts, 1, translated_parts[1][2], <<>>)

\* LatexParser.preserve_structure
preserve_structure(original, translated_parts) ==
    IF translated_parts = <<>> THEN original
    ELSE SpliceLoop(original, translated_parts, 1, 0, <<>>)


(***************************************************************************)
(* LatexProjectAnalyzer                                                     *)
(***************************************************************************)

standard_commands == {
    <<"s","e","c","t","i","o","n">>,
    <<"s","u","b","s","e","c","t","i","o","n">>,
    <<"s","u","b","s","u","b","s","e","c","t","i","o","n">>,
    <<"p","a","r","a","g","r","a","p","h">>,
    <<"s","u","b","p","a","r","a","g","r","a","p","h">>,
    <<"c","h","a","p","t","e","r">>, <<"p","a","r","t">>,
    <<"t","i","t","l","e">>, <<"a","u","t","h","o","r">>, <<"d","a","t","e">>,
    <<"m","a","k","e","t","i","t","l","e">>,
    <<"t","a","b","l","e","o","f","c","o","n","t","e","n","t","s">>,
    <<"l","i","s","t","o","f","f","i","g","u","r","e","s">>,
    <<"l","i","s","t","o","f","t","a","b","l","e","s">>,
    <<"t","e","x","t","b","f">>, <<"t","e","x","t","i","t">>,
    <<"t","e","x","t","s","c">>, <<"t","e","x","t","t","t">>,
    <<"e","m","p","h">>, <<"u","n","d","e","r","l","i","n","e">>,
    <<"f","o","o","t","n","o","t","e">>,
    <<"m","a","r","g","i","n","p","a","r">>, <<"c","a","p","t","i","o","n">>,
    <<"l","a","b","e","l">>, <<"r","e","f">>, <<"p","a","g","e","r","e","f">>,
    <<"c","i","t","e">>, <<"b","i","b","l","i","o","g","r","a","p","h","y">>,
    <<"b","i","b","l","i","o","g","r","a","p","h","y","s","t","y","l","e">>,
    <<"b","e","g","i","n">>, <<"e","n","d">>, <<"i","t","e","m">>,
    <<"e","n","u","m","e","r","a","t","e">>, <<"i","t","e","m","i","z","e">>,
    <<"d","e","s","c","r","i","p","t","i","o","n">>,
    <<"f","i","g","u","r","e">>, <<"t","a","b","l","e">>,
    <<"c","e","n","t","e","r">>, <<"f","l","u","s","h","l","e","f","t">>,
    <<"f","l","u","s","h","r","i","g","h","t">>,
    <<"i","n","c","l","u","d","e","g","r","a","p","h","i","c","s">>,
    <<"u","s","e","p","a","c","k","a","g","e">>,
    <<"d","o","c","u","m","e","n","t","c","l","a","s","s">>,
    <<"n","e","w","p","a","g","e">>, <<"c","l","e","a","r","p","a","g","e">>,
    <<"p","a","g","e","b","r","e","a","k">>,
    <<"l","i","n","e","b","r","e","a","k">>, <<"h","s","p","a","c","e">>,
    <<"v","s","p","a","c","e">>, <<"q","u","a","d">>,
    <<"q","q","u","a","d">> }

standard_environments == {
    <<"d","o","c","u","m","e","n","t">>, <<"a","b","s","t","r","a","c","t">>,
    <<"q","u","o","t","e">>, <<"q","u","o","t","a","t","i","o","n">>,
    <<"v","e","r","s","e">>, <<"i","t","e","m","i","z","e">>,
    <<"e","n","u","m","e","r","a","t","e">>,
    <<"d","e","s","c","r","i","p","t","i","o","n">>, <<"l","i","s","t">>,
    <<"f","i","g","u","r","e">>, <<"t","a","b","l","e">>,
    <<"t","a","b","u","l","a","r">>, <<"a","r","r","a","y">>,
    <<"e","q","u","a","t","i","o","n">>, <<"a","l","i","g","n">>,
    <<"g","a","t","h","e","r">>, <<"m","u","l","t","l","i","n","e">>,
    <<"s","p","l","i","t">>, <<"e","q","n","a","r","r","a","y">>,
    <<"d","i","s","p","l","a","y","m","a","t","h">>, <<"m","a","t","h">>,
    <<"c","e","n","t","e","r">>, <<"f","l","u","s","h","l","e","f","t">>,
    <<"f","l","u","s","h","r","i","g","h","t">>,
    <<"m","i","n","i","p","a","g","e">>, <<"p","a","r","b","o","x">>,
    <<"m","a","k","e","b","o","x">>, <<"f","r","a","m","e","b","o","x">>,
    <<"v","e","r","b","a","t","i","m">>,
    <<"v","e","r","b","a","t","i","m","*">>,
    <<"t","h","e","b","i","b","l","i","o","g","r","a","p","h","y">>,
    <<"t","h","e","i","n","d","e","x">> }

common_package_commands == {
    <<"a","l","i","g","n">>, <<"g","a","t","h","e","r">>,
    <<"m","u","l","t","l","i","n","e">>, <<"s","p","l","i","t">>,
    <<"a","l","i","g","n","e","d">>, <<"g","a","t","h","e","r","e","d">>,
    <<"c","a","s","e","s">>, <<"m","a","t","r","i","x">>,
    <<"p","m","a","t","r","i","x">>, <<"b","m","a","t","r","i","x">>,
    <<"v","m","a","t","r","i","x">>, <<"V","m","a","t","r","i","x">>,
    <<"m","a","t","h","b","b">>, <<"m","a","t","h","f","r","a","k">>,
    <<"m","a","t","h","s","c","r">>,
    <<"i","n","c","l","u","d","e","g","r","a","p","h","i","c","s">>,
    <<"r","o","t","a","t","e","b","o","x">>,
    <<"s","c","a","l","e","b","o","x">>, <<"h","r","e","f">>, <<"u","r","l">>,
    <<"h","y","p","e","r","r","e","f">>,
    <<"h","y","p","e","r","s","e","t","u","p">>,
    <<"g","e","o","m","e","t","r","y">>,
    <<"n","e","w","g","e","o","m","e","t","r","y">>,
    <<"f","a","n","c","y","h","f">>, <<"f","a","n","c","y","h","e","a","d">>,
    <<"f","a","n","c","y","f","o","o","t">>,
    <<"p","a","g","e","s","t","y","l","e">>,
    <<"s","e","l","e","c","t","l","a","n","g","u","a","g","e">>,
    <<"f","o","r","e","i","g","n","l","a","n","g","u","a","g","e">>,
    <<"c","i","t","e","p">>, <<"c","i","t","e","t">>,
    <<"c","i","t","e","a","l","p">>, <<"c","i","t","e","a","l","t">>,
    <<"c","i","t","e","a","u","t","h","o","r">>,
    <<"c","i","t","e","y","e","a","r">>, <<"t","i","k","z">>,
    <<"t","i","k","z","p","i","c","t","u","r","e">>, <<"n","o","d","e">>,
    <<"d","r","a","w">>, <<"f","i","l","l">>, <<"p","a","t","h">>,
    <<"l","s","t","l","i","s","t","i","n","g">>,
    <<"l","s","t","i","n","p","u","t","l","i","s","t","i","n","g">>,
    <<"l","s","t","s","e","t">>, <<"a","l","g","o","r","i","t","h","m">>,
    <<"a","l","g","o","r","i","t","h","m","i","c">>,
    <<"a","l","g","s","e","t","u","p">> }


\* the text of a path or of a name, as the characters of the Python str
TexSuffix == <<".", "t", "e", "x">>
DocumentclassLit == <<BS, "d", "o", "c", "u", "m", "e", "n", "t", "c", "l", "a", "s", "s">>

\* re.search(lit, content) for a pattern that is a literal
Contains(content, l) == Find(content, l, 0) # NoMatch

\* s.endswith(suffix)
EndsWith(s, suffix) == StartsAt(s, Len(s) - Len(suffix), suffix)

RECURSIVE SplitOn(_, _)
\* s.split(c)
SplitOn(s, c) ==
    LET q == FindChar(s, {c}, 0)
    IN IF q = NoMatch THEN <<s>>
       ELSE <<Slice(s, 0, q)>> \o SplitOn(Slice(s, q + 1, Len(s)), c)

\* the elements of a sequence, as a set
Range(f) == {f[k] : k \in DOMAIN f}

RECURSIVE SetToSeq(_)
\* the order in which a loop visits a Python set: one fixed order
SetToSeq(S) ==
    IF S = {} THEN <<>>
    ELSE LET e == CHOOSE e \in S : TRUE IN <<e>> \o SetToSeq(S \ {e})

RECURSIVE DigitsValue(_)
DigitValue(c) == CHOOSE d \in 0..9 : <<"0","1","2","3","4","5","6","7","8","9">>[d + 1] = c
DigitsValue(ds) ==
    IF ds = <<>> THEN 0
    ELSE 10 * DigitsValue(SubSeq(ds, 1, Len(ds) - 1)) + DigitValue(ds[Len(ds)])

\* whether int(s) returns: optional surrounding whitespace, an optional sign,
\* then digits, with single underscores allowed between digits
IsIntLiteral(s) ==
    LET t == Strip(s)
        u == IF t # <<>> /\ t[1] \in {"+", "-"} THEN Tail(t) ELSE t
    IN /\ u # <<>>
       /\ \A k \in 1..Len(u) : IsDigit(u[k]) \/ u[k] = "_"
       /\ IsDigit(u[1]) /\ IsDigit(u[Len(u)])
       /\ \A k \in 1..(Len(u) - 1) : ~(u[k] = "_" /\ u[k + 1] = "_")

\* int(s), for an s that int accepts
IntValue(s) ==
    LET t == Strip(s)
        neg == t # <<>> /\ t[1] = "-"
        u == IF t # <<>> /\ t[1] \in {"+", "-"} THEN Tail(t) ELSE t
        v == DigitsValue(SelectSeq(u, IsDigit))
    IN IF neg THEN 0 - v ELSE v

\* \\<name>\{([^}]+)\}  at i, for the four dependency directives: the match's
\* end, the group being Slice(s, i + Len(directive) + 1, end - 1)
DirectiveAt(s, i, directive) ==
    IF ~StartsAt(s, i, directive) THEN NoMatch ELSE BraceArg(s, i + Len(directive))

InputLit == <<BS, "i", "n", "p", "u", "t">>
IncludeLit == <<BS, "i", "n", "c", "l", "u", "d", "e">>
SubfileLit == <<BS, "s", "u", "b", "f", "i", "l", "e">>
InputIfFileExistsLit == <<BS, "I", "n", "p", "u", "t", "I", "f", "F", "i", "l", "e", "E", "x", "i", "s", "t", "s">>
DependencyDirectives == <<InputLit, IncludeLit, SubfileLit, InputIfFileExistsLit>>

\* dep_file, with '.tex' added unless it ends with it
NormalizeDep(dep_file) ==
    IF EndsWith(dep_file, TexSuffix) THEN dep_file ELSE dep_file \o TexSuffix

\* the dependencies one pattern of _analyze_dependencies appends
DepsOfDirective(content, directive) ==
    With(FindIter(LAMBDA s, i : DirectiveAt(s, i, directive), content, 0),
         LAMBDA ms :
            [k \in 1..Len(ms) |->
                NormalizeDep(Slice(content, ms[k][1] + Len(directive) + 1,
                                   ms[k][2] - 1))])

\* LatexProjectAnalyzer._analyze_dependencies: latex_file.dependencies
_analyze_dependencies(content) ==
    DepsOfDirective(content, DependencyDirectives[1])
    \o DepsOfDirective(content, DependencyDirectives[2])
    \o DepsOfDirective(content, DependencyDirectives[3])
    \o DepsOfDirective(content, DependencyDirectives[4])

NewcommandLit == <<BS, "n", "e", "w", "c", "o", "m", "m", "a", "n", "d", "{", BS>>
RenewcommandLit == <<BS, "r", "e", "n", "e", "w", "c", "o", "m", "m", "a", "n", "d", "{", BS>>
DefLit == <<BS, "d", "e", "f", BS>>
NewenvironmentLit == <<BS, "n", "e", "w", "e", "n", "v", "i", "r", "o", "n", "m", "e", "n", "t", "{">>
RenewenvironmentLit == <<BS, "r", "e", "n", "e", "w", "e", "n", "v", "i", "r", "o", "n", "m", "e", "n", "t", "{">>

NoGroups == [end |-> NoMatch, g1 |-> <<>>, g2 |-> <<>>, g3 |-> <<>>, g4 |-> <<>>]

\* (?:\[(\d+)\])?  at a, followed by a part that must match: the position after
\* the group when it matches, a otherwise
OptCount(s, a) ==
    IF ~StartsAt(s, a, <<"[">>) THEN a
    ELSE LET r == FirstIn(a + 1, Len(s) - 1, LAMBDA p : ~IsDigit(s[p + 1]))
             q == IF r = NoMatch THEN Len(s) ELSE r
         IN IF q > a + 1 /\ StartsAt(s, q, <<"]">>) THEN q + 1 ELSE a

\* <opening>([^}]+)\}(?:\[(\d+)\])?\{([^}]+)\}  at i, opening being
\* \\newcommand\{\\ or \\renewcommand\{\\ : the match and its groups
CommandDefAt(s, i, opening) ==
    With(i + Len(opening), LAMBDA n0 :
    With(FindChar(s, {"}"}, n0), LAMBDA n1 :
    With(OptCount(s, n1 + 1), LAMBDA b :
    With(BraceArg(s, b), LAMBDA e :
        IF ~StartsAt(s, i, opening) \/ n1 = NoMatch \/ n1 = n0 \/ e = NoMatch
        THEN NoGroups
        ELSE [end |-> e, g1 |-> Slice(s, n0, n1),
              g2 |-> IF b > n1 + 1 THEN Slice(s, n1 + 2, b - 1) ELSE <<>>,
              g3 |-> Slice(s, b + 1, e - 1), g4 |-> <<>>]))))

\* \\def\\([^{]+)\{([^}]+)\}  at i: the match and its two groups
DefAt(s, i) ==
    With(i + Len(DefLit), LAMBDA n0 :
    With(FindChar(s, {"{"}, n0), LAMBDA n1 :
    With(BraceArg(s, n1), LAMBDA e :
        IF ~StartsAt(s, i, DefLit) \/ n1 = NoMatch \/ n1 = n0 \/ e = NoMatch
        THEN NoGroups
        ELSE [end |-> e, g1 |-> Slice(s, n0, n1), g2 |-> Slice(s, n1 + 1, e - 1),
              g3 |-> <<>>, g4 |-> <<>>])))

\* <opening>([^}]+)\}(?:\[(\d+)\])?\{([^}]+)\}\{([^}]+)\}  at i, opening being
\* \\newenvironment\{ or \\renewenvironment\{ : the match and its groups
EnvironmentDefAt(s, i, opening) ==
    With(i + Len(opening), LAMBDA n0 :
    With(FindChar(s, {"}"}, n0), LAMBDA n1 :
    With(OptCount(s, n1 + 1), LAMBDA b :
    With(BraceArg(s, b), LAMBDA e1 :
    With(BraceArg(s, e1), LAMBDA e2 :
        IF ~StartsAt(s, i, opening) \/ n1 = NoMatch \/ n1 = n0
           \/ e1 = NoMatch \/ e2 = NoMatch
        THEN NoGroups
        ELSE [end |-> e2, g1 |-> Slice(s, n0, n1),
              g2 |-> IF b > n1 + 1 THEN Slice(s, n1 + 2, b - 1) ELSE <<>>,
              g3 |-> Slice(s, b + 1, e1 - 1), g4 |-> Slice(s, e1 + 1, e2 - 1)])))))

\* LatexCommand(name, definition, num_args, source_file)
LatexCommand(name, definition, num_args, source_file) ==
    [name |-> name, definition |-> definition, num_args |-> num_args,
     optional_args |-> 0, is_custom |-> TRUE, source_file |-> source_file]

\* LatexEnvironment(name, definition, source_file)
LatexEnvironment(name, definition, source_file) ==
    [name |-> name, definition |-> definition, is_custom |-> TRUE,
     source_file |-> source_file]

\* the commands the \newcommand or \renewcommand pattern registers
CommandDefs(content, opening, path) ==
    With(FindIter(LAMBDA s, i : CommandDefAt(s, i, opening).end, content, 0),
         LAMBDA ms :
            [k \in 1..Len(ms) |->
                With(CommandDefAt(content, ms[k][1], opening), LAMBDA g :
                    LatexCommand(g.g1, g.g3,
                                 IF g.g2 # <<>> THEN IntValue(g.g2) ELSE 0, path))])

\* the matches of the \def pattern: group 2, the body, is what the loop hands
\* to int(), since the pattern has no count group
DefMatches(content) ==
    With(FindIter(LAMBDA s, i : DefAt(s, i).end, content, 0),
         LAMBDA ms : [k \in 1..Len(ms) |-> DefAt(content, ms[k][1])])

\* whether the \def pass of _analyze_custom_definitions raises ValueError
DefRaises(content) ==
    \E m \in Range(DefMatches(content)) : ~IsIntLiteral(m.g2)

\* the commands the \def pattern registers, when int() accepts every body
DefCommands(content, path) ==
    With(DefMatches(content), LAMBDA ms :
        [k \in 1..Len(ms) |->
            LatexCommand(ms[k].g1, ms[k].g2, IntValue(ms[k].g2), path)])

\* the environments one of the two environment patterns registers
EnvironmentDefs(content, opening, path) ==
    With(FindIter(LAMBDA s, i : EnvironmentDefAt(s, i, opening).end, content, 0),
         LAMBDA ms :
            [k \in 1..Len(ms) |->
                With(EnvironmentDefAt(content, ms[k][1], opening), LAMBDA g :
                    LatexEnvironment(g.g1,
                        BeginLit \o g.g1 \o <<"}">> \o g.g3 \o <<".", ".", ".">>
                        \o EndLit \o g.g1 \o <<"}">> \o g.g4, path))])

\* LatexProjectAnalyzer._analyze_custom_definitions: latex_file.custom_commands
CustomCommandsOf(content, path) ==
    CommandDefs(content, NewcommandLit, path)
    \o CommandDefs(content, RenewcommandLit, path)
    \o DefCommands(content, path)

\* LatexProjectAnalyzer._analyze_custom_definitions: custom_environments
CustomEnvironmentsOf(content, path) ==
    EnvironmentDefs(content, NewenvironmentLit, path)
    \o EnvironmentDefs(content, RenewenvironmentLit, path)

\* the keys _analyze_citation adds for one Citation element
CitationKeys(elem) ==
    {Strip(key) : key \in Range(SplitOn(elem.metadata.keys, ","))}

ElementsOfType(elements, ty) == SelectSeq(elements, LAMBDA e : e.type = ty)

\* LatexProjectAnalyzer._analyze_file, when it returns: the LatexFile
LatexFileOf(file_path, content) ==
    With(parse(content), LAMBDA elements :
       [path |-> file_path,
        content |-> content,
        dependencies |-> _analyze_dependencies(content),
        custom_commands |-> CustomCommandsOf(content, file_path),
        custom_environments |-> CustomEnvironmentsOf(content, file_path),
        used_commands |->
            {e.metadata.command : e \in Range(ElementsOfType(elements, "command"))},
        used_environments |->
            {e.metadata.environment : e \in Range(ElementsOfType(elements, "environment"))},
        citations |->
            UNION {CitationKeys(e) : e \in Range(ElementsOfType(elements, "citation"))},
        labels |-> {e.metadata.key : e \in Range(ElementsOfType(elements, "label"))},
        refs |-> {e.metadata.key : e \in Range(ElementsOfType(elements, "reference"))}])


\* None, and the empty str: both are false in a Python condition
None == <<>>

\* the paths of the mapping analyzer.files, in insertion order
PathsOf(fs) == [k \in 1..Len(fs) |-> fs[k].path]

\* path in self.files
HasFile(fs, path) == \E k \in 1..Len(fs) : fs[k].path = path

\* self.files[path]
FileAt(fs, path) == fs[CHOOSE k \in 1..Len(fs) : fs[k].path = path]

\* self.files[path] = latex_file: a key that is present keeps its place
PutFile(fs, latex_file) ==
    IF HasFile(fs, latex_file.path)
    THEN [k \in 1..Len(fs) |->
             IF fs[k].path = latex_file.path THEN latex_file ELSE fs[k]]
    ELSE Append(fs, latex_file)

\* the content _find_main_file and _analyze_file read from a file of the
\* project root; a file that cannot be read raises inside open() or read()
Readable(entry) == entry.readable

common_names == << <<"m","a","i","n",".","t","e","x">>,
                  <<"p","a","p","e","r",".","t","e","x">>,
                  <<"d","o","c","u","m","e","n","t",".","t","e","x">>,
                  <<"t","h","e","s","i","s",".","t","e","x">>,
                  <<"a","r","t","i","c","l","e",".","t","e","x">> >>

\* a choice of the first discovered file that has a conventional name
_find_main_file_by_discovery_order(latex_files) ==
    LET named == {j \in 1..Len(latex_files) :
                     \E k \in 1..Len(common_names) : latex_files[j].path = common_names[k]}
        withClass == {j \in 1..Len(latex_files) :
                         Readable(latex_files[j])
                         /\ Contains(latex_files[j].content, DocumentclassLit)}
    IN IF named # {} THEN latex_files[Min(named)].path
       ELSE IF withClass # {} THEN latex_files[Min(withClass)].path
       ELSE IF latex_files # <<>> THEN latex_files[1].path
       ELSE None

\* LatexProjectAnalyzer._find_main_file over the discovered files, each an
\* entry [path, content, readable] of the project root in discovery order
_find_main_file(latex_files) ==
    LET names == {k \in 1..Len(common_names) :
                     \E j \in 1..Len(latex_files) : latex_files[j].path = common_names[k]}
        withClass == {j \in 1..Len(latex_files) :
                         Readable(latex_files[j])
                         /\ Contains(latex_files[j].content, DocumentclassLit)}
    IN IF names # {} THEN common_names[Min(names)]
       ELSE IF withClass # {} THEN latex_files[Min(withClass)].path
       ELSE IF latex_files # <<>> THEN latex_files[1].path
       ELSE None

\* the content _analyze_file works on: "" when the file cannot be read
ContentRead(entry) == IF Readable(entry) THEN entry.content ELSE <<>>

RECURSIVE AnalyzeFiles(_, _, _)
\* step 3 of analyze_project, from the k-th discovered file on:
\* the files analysed and whether _analyze_file raised
AnalyzeFiles(latex_files, k, fs) ==
    IF k > Len(latex_files) THEN [files |-> fs, raised |-> FALSE]
    ELSE IF DefRaises(ContentRead(latex_files[k]))
    THEN [files |-> fs, raised |-> TRUE]
    ELSE AnalyzeFiles(latex_files, k + 1,
             PutFile(fs, LatexFileOf(latex_files[k].path, ContentRead(latex_files[k]))))

\* a graph that keeps every recorded dependency as an edge
_build_dependency_graph_with_every_dependency(fs) ==
    [path \in Range(PathsOf(fs)) |-> FileAt(fs, path).dependencies]

\* LatexProjectAnalyzer._build_dependency_graph: an edge for each dependency
\* that is a key of files
_build_dependency_graph(fs) ==
    [path \in Range(PathsOf(fs)) |->
        SelectSeq(FileAt(fs, path).dependencies, LAMBDA dep : HasFile(fs, dep))]

\* self.dependency_graph.get(node, [])
GraphGet(graph, node) == IF node \in DOMAIN graph THEN graph[node] ELSE <<>>

RECURSIVE visit(_, _, _)
RECURSIVE VisitDeps(_, _, _, _)
\* a visit that appends the node before it visits the dependencies
visit_appending_first(graph, node, st) ==
    IF node \in st.temp_visited THEN st
    ELSE IF node \in st.visited THEN st
    ELSE LET entered == [st EXCEPT !.temp_visited = @ \cup {node},
                                   !.result = Append(@, node)]
             after == VisitDeps(graph, GraphGet(graph, node), 1, entered)
         IN [visited |-> after.visited \cup {node},
             temp_visited |-> after.temp_visited \ {node},
             result |-> after.result]

\* a visit that does not return early from a node that was visited before
visit_ignoring_visited(graph, node, st) ==
    IF node \in st.temp_visited THEN st
    ELSE LET entered == [st EXCEPT !.temp_visited = @ \cup {node}]
             after == VisitDeps(graph, GraphGet(graph, node), 1, entered)
         IN [visited |-> after.visited \cup {node},
             temp_visited |-> after.temp_visited \ {node},
             result |-> Append(after.result, node)]

\* visit(node) of _determine_compilation_order, on the traversal state
\* [visited, temp_visited, result]
visit(graph, node, st) ==
    IF node \in st.temp_visited THEN st
    ELSE IF node \in st.visited THEN st
    ELSE LET entered == [st EXCEPT !.temp_visited = @ \cup {node}]
             after == VisitDeps(graph, GraphGet(graph, node), 1, entered)
         IN [visited |-> after.visited \cup {node},
             temp_visited |-> after.temp_visited \ {node},
             result |-> Append(after.result, node)]

\* for dep in self.dependency_graph.get(node, []): visit(dep)
VisitDeps(graph, deps, k, st) ==
    IF k > Len(deps) THEN st
    ELSE VisitDeps(graph, deps, k + 1, visit(graph, deps[k], st))

RECURSIVE VisitFiles(_, _, _, _)
\* for file_path in self.files: if file_path not in visited: visit(file_path)
VisitFiles(graph, paths, k, st) ==
    IF k > Len(paths) THEN st
    ELSE VisitFiles(graph, paths, k + 1,
             IF paths[k] \notin st.visited THEN visit(graph, paths[k], st) ELSE st)

\* LatexProjectAnalyzer._determine_compilation_order
_determine_compilation_order(fs, graph) ==
    VisitFiles(graph, PathsOf(fs), 1,
               [visited |-> {}, temp_visited |-> {}, result |-> <<>>]).result

\* every definition of the project, in the order _integrate_global_definitions
\* assigns them: files in insertion order, each file's definitions in order
AllDefinitions(fs, Defs(_)) ==
    Concat([k \in 1..Len(fs) |-> Defs(fs[k])])

\* the mapping after registry[d.name] = d for every d of defs in order,
\* starting from registry
AssignAll(registry, defs) ==
    [name \in DOMAIN registry \cup {defs[k].name : k \in 1..Len(defs)} |->
        LET K == {k \in 1..Len(defs) : defs[k].name = name}
        IN IF K = {} THEN registry[name] ELSE defs[Max(K)]]

\* LatexProjectAnalyzer._integrate_global_definitions: global_commands
IntegrateCommands(registry, fs) ==
    AssignAll(registry, AllDefinitions(fs, LAMBDA f : f.custom_commands))

\* LatexProjectAnalyzer._integrate_global_definitions: global_environments
IntegrateEnvironments(registry, fs) ==
    AssignAll(registry, AllDefinitions(fs, LAMBDA f : f.custom_environments))

\* a check of each file's references against the labels of that file alone
validate_references_within_file(fs) ==
    LET Missing(f) == SelectSeq(SetToSeq(f.refs), LAMBDA ref : ref \notin f.labels)
    IN Concat([k \in 1..Len(fs) |->
           [j \in 1..Len(Missing(fs[k])) |->
               fs[k].path \o <<":", " ", BS, "r", "e", "f", "{">>
               \o Missing(fs[k])[j] \o <<"}">>]])

\* LatexProjectAnalyzer.validate_references: issues['missing_labels'], each
\* f"{latex_file.path}: \\ref{{{ref}}}"
validate_references(fs) ==
    LET all_labels == UNION {fs[k].labels : k \in 1..Len(fs)}
        Missing(f) == SelectSeq(SetToSeq(f.refs), LAMBDA ref : ref \notin all_labels)
    IN Concat([k \in 1..Len(fs) |->
           [j \in 1..Len(Missing(fs[k])) |->
               fs[k].path \o <<":", " ", BS, "r", "e", "f", "{">>
               \o Missing(fs[k])[j] \o <<"}">>]])

(***************************************************************************)
(* LatexValidator                                                           *)
(***************************************************************************)

\* ValidationIssue(type, severity, message, file_path, line_number).  message
\* holds the value the code interpolates into its fixed text; the suggestion
\* repeats it and is left out.  line_number 0 is None
ValidationIssue(ty, severity, message, file_path, line_number) ==
    [type |-> ty, severity |-> severity, message |-> message,
     file_path |-> file_path, line_number |-> line_number]

BeginDocumentLit == <<BS, "b", "e", "g", "i", "n", "{", "d", "o", "c", "u", "m", "e", "n", "t", "}">>
EndDocumentLit == <<BS, "e", "n", "d", "{", "d", "o", "c", "u", "m", "e", "n", "t", "}">>

\* LatexValidator._validate_project_structure
_validate_project_structure(main, fs) ==
    IF main = None
    THEN <<ValidationIssue("missing_main_file", "error", <<>>, <<>>, 0)>>
    ELSE LET content == FileAt(fs, main).content
         IN (IF ~Contains(content, DocumentclassLit)
             THEN <<ValidationIssue("missing_documentclass", "error", <<>>, main, 0)>>
             ELSE <<>>)
            \o (IF ~Contains(content, BeginDocumentLit)
                THEN <<ValidationIssue("missing_begin_document", "error", <<>>, main, 0)>>
                ELSE <<>>)
            \o (IF ~Contains(content, EndDocumentLit)
                THEN <<ValidationIssue("missing_end_document", "error", <<>>, main, 0)>>
                ELSE <<>>)

\* \\([a-zA-Z]+)
command_name_pattern(s, i) ==
    IF StartsAt(s, i, <<BS>>) /\ LettersEnd(s, i + 1) > i + 1
    THEN LettersEnd(s, i + 1) ELSE NoMatch

\* re.findall(r'\\([a-zA-Z]+)', line)
CommandNamesIn(line) ==
    LET ms == FindIter(command_name_pattern, line, 0)
    IN [k \in 1..Len(ms) |-> Slice(line, ms[k][1] + 1, ms[k][2])]

\* LatexValidator._is_common_package_command
_is_common_package_command(command) == command \in common_package_commands

\* the issues _validate_file appends for line number i
LineIssues(line, i, path, commands) ==
    (IF Count(line, "{") # Count(line, "}")
     THEN <<ValidationIssue("unmatched_braces", "warning", Strip(line), path, i)>>
     ELSE <<>>)
    \o (IF Count(line, "$") % 2 # 0
        THEN <<ValidationIssue("unmatched_math_delimiters", "warning", Strip(line), path, i)>>
        ELSE <<>>)
    \o LET unknown == SelectSeq(CommandNamesIn(line),
                          LAMBDA cmd : /\ cmd \notin standard_commands
                                       /\ cmd \notin DOMAIN commands
                                       /\ ~_is_common_package_command(cmd))
       IN [k \in 1..Len(unknown) |->
              ValidationIssue("unknown_command", "warning", unknown[k], path, i)]

\* LatexValidator._validate_file
_validate_file(latex_file, commands) ==
    LET lines == SplitOn(latex_file.content, NL)
    IN Concat([i \in 1..Len(lines) |->
                  LineIssues(lines[i], i, latex_file.path, commands)])

\* a check that reports a missing dependency as a warning
_validate_dependencies_as_warnings(fs) ==
    Concat([k \in 1..Len(fs) |->
        LET missing == SelectSeq(fs[k].dependencies, LAMBDA dep : ~HasFile(fs, dep))
        IN [j \in 1..Len(missing) |->
               ValidationIssue("missing_dependency", "warning", missing[j], fs[k].path, 0)]])

\* LatexValidator._validate_dependencies
_validate_dependencies(fs) ==
    Concat([k \in 1..Len(fs) |->
        LET missing == SelectSeq(fs[k].dependencies, LAMBDA dep : ~HasFile(fs, dep))
        IN [j \in 1..Len(missing) |->
               ValidationIssue("missing_dependency", "error", missing[j], fs[k].path, 0)]])

\* LatexValidator._validate_references
_validate_references(fs) ==
    LET missing_labels == validate_references(fs)
    IN [k \in 1..Len(missing_labels) |->
           ValidationIssue("missing_label", "error", missing_labels[k],
                           SplitOn(missing_labels[k], ":")[1], 0)]

\* a check that reports a missing command dependency as an error
_validate_custom_definitions_as_errors(fs, commands) ==
    Concat([k \in 1..Len(fs) |->
        LET foreign == SelectSeq(SetToSeq(fs[k].used_commands),
                LAMBDA cmd_name :
                    /\ cmd_name \in DOMAIN commands
                    /\ commands[cmd_name].source_file # fs[k].path
                    /\ commands[cmd_name].source_file \notin Range(fs[k].dependencies))
        IN [j \in 1..Len(foreign) |->
               ValidationIssue("missing_command_dependency", "error",
                               foreign[j], fs[k].path, 0)]])

\* LatexValidator._validate_custom_definitions
_validate_custom_definitions(fs, commands) ==
    Concat([k \in 1..Len(fs) |->
        LET foreign == SelectSeq(SetToSeq(fs[k].used_commands),
                LAMBDA cmd_name :
                    /\ cmd_name \in DOMAIN commands
                    /\ commands[cmd_name].source_file # fs[k].path
                    /\ commands[cmd_name].source_file \notin Range(fs[k].dependencies))
        IN [j \in 1..Len(foreign) |->
               ValidationIssue("missing_command_dependency", "warning",
                               foreign[j], fs[k].path, 0)]])

\* group 1 of re.search(r'\\end\{([^}]+)\}', s), <<>> when there is no match
FirstEndName(s) ==
    LET q == FirstIn(0, Len(s) - 1,
                     LAMBDA p : StartsAt(s, p, EndLit)
                                /\ BraceArg(s, p + Len(EndLit) - 1) # NoMatch)
    IN IF q = NoMatch THEN <<>>
       ELSE Slice(s, q + Len(EndLit), BraceArg(s, q + Len(EndLit) - 1) - 1)

RECURSIVE EnvLoop(_, _, _, _, _)
\* the loop of _validate_latex_syntax over the Environment elements envs[k..]
\* of one file, then the pass over what is left on env_stack
EnvLoop(envs, k, env_stack, found, path) ==
    IF k > Len(envs)
    THEN found \o [j \in 1..Len(env_stack) |->
                      ValidationIssue("unclosed_environment", "error",
                                      env_stack[j], path, 0)]
    ELSE LET env_name == BeginName(envs[k].content, 0)
             pushed == IF env_name # <<>> THEN Append(env_stack, env_name) ELSE env_stack
             end_env == FirstEndName(envs[k].content)
         IN IF end_env = <<>> THEN EnvLoop(envs, k + 1, pushed, found, path)
            ELSE IF pushed # <<>> /\ pushed[Len(pushed)] = end_env
            THEN EnvLoop(envs, k + 1, SubSeq(pushed, 1, Len(pushed) - 1), found, path)
            ELSE EnvLoop(envs, k + 1, pushed,
                         Append(found, ValidationIssue("unmatched_environment", "error",
                                                       end_env, path, 0)),
                         path)

\* LatexValidator._validate_latex_syntax
_validate_latex_syntax(fs) ==
    Concat([k \in 1..Len(fs) |->
        EnvLoop(ElementsOfType(parse(fs[k].content), "environment"), 1, <<>>, <<>>,
                fs[k].path)])

\* the issues of one validate_project call, in the order the six passes
\* append them to the list the call starts empty
ProjectIssues(main, fs, commands) ==
    _validate_project_structure(main, fs)
    \o Concat([k \in 1..Len(fs) |-> _validate_file(fs[k], commands)])
    \o _validate_dependencies(fs)
    \o _validate_references(fs)
    \o _validate_custom_definitions(fs, commands)
    \o _validate_latex_syntax(fs)

\* len([i for i in self.issues if i.severity == severity])
CountSeverity(found, severity) ==
    Len(SelectSeq(found, LAMBDA i : i.severity = severity))

\* a result dict whose error_count counts the issues of every severity
ValidationResultCountingEveryIssue(found, fixes) ==
    [issues |-> found,
     fixes_applied |-> fixes,
     error_count |-> Len(found),
     warning_count |-> CountSeverity(found, "warning"),
     is_compilable |-> CountSeverity(found, "error") = 0]

\* the result dict of validate_project
ValidationResult(found, fixes) ==
    [issues |-> found,
     fixes_applied |-> fixes,
     error_count |-> CountSeverity(found, "error"),
     warning_count |-> CountSeverity(found, "warning"),
     is_compilable |-> CountSeverity(found, "error") = 0]


\* the replacement of every match of a pattern: re.sub(pattern, repl, s) from
\* position pos on, spans being the matches and Repl(span) the text that
\* replaces one
RECURSIVE SubLoop(_, _, _, _, _)
SubLoop(Repl(_), s, spans, k, pos) ==
    IF k > Len(spans) THEN Slice(s, pos, Len(s))
    ELSE Slice(s, pos, spans[k][1]) \o Repl(spans[k])
         \o SubLoop(Repl, s, spans, k + 1, spans[k][2])

\* re.sub(pattern, repl, s)
Sub(Pat(_, _), Repl(_), s) == SubLoop(Repl, s, FindIter(Pat, s, 0), 1, 0)

\* the dict full_to_half of _fix_file_content (and replacements of
\* _fix_latex_syntax): the full-width character "FW" c becomes c
full_to_half ==
    [c \in {"FW(", "FW)", "FW{", "FW}", "FW[", "FW]", "FW$", "FW\\", "FW%",
            "FW&", "FW_", "FW^", "FW|", "FW~", "FW#"} |->
        CASE c = "FW(" -> "(" [] c = "FW)" -> ")" [] c = "FW{" -> "{"
          [] c = "FW}" -> "}" [] c = "FW[" -> "[" [] c = "FW]" -> "]"
          [] c = "FW$" -> "$" [] c = "FW\\" -> "\\" [] c = "FW%" -> "%"
          [] c = "FW&" -> "&" [] c = "FW_" -> "_" [] c = "FW^" -> "^"
          [] c = "FW|" -> "|" [] c = "FW~" -> "~" [] c = "FW#" -> "#"]

\* for full, half in full_to_half.items(): content = content.replace(full, half)
ReplaceFullWidth(s) ==
    [k \in 1..Len(s) |-> IF s[k] \in DOMAIN full_to_half THEN full_to_half[s[k]] ELSE s[k]]

\* \n{3,}
blank_lines_pattern(s, i) ==
    LET q == FirstIn(i, Len(s) - 1, LAMBDA p : s[p + 1] # NL)
        e == IF q = NoMatch THEN Len(s) ELSE q
    IN IF i < Len(s) /\ e - i >= 3 THEN e ELSE NoMatch

\* \$\s+([^$]+)\s+\$  at i: the position of the closing "$", NoMatch when the
\* pattern does not match.  The closing "$" is the first one after i; the
\* character before it is whitespace, and the leading whitespace gives back
\* what the group and the trailing whitespace need
MathSpaceClose(s, i) ==
    LET q == FindChar(s, {"$"}, i + 1)
    IN IF /\ StartsAt(s, i, <<"$">>)
          /\ i + 1 < Len(s) /\ IsSpace(s[i + 2])
          /\ q # NoMatch /\ q - i >= 4 /\ IsSpace(s[q])
       THEN q ELSE NoMatch

math_space_pattern(s, i) ==
    IF MathSpaceClose(s, i) = NoMatch THEN NoMatch ELSE MathSpaceClose(s, i) + 1

\* group 1 of a match <<i, q + 1>> of the math-space pattern
MathSpaceGroup(s, span) ==
    LET i == span[1]
        q == span[2] - 1
        r == SpacesEnd(s, i + 1) - (i + 1)
        k == IF r <= q - i - 3 THEN r ELSE q - i - 3
    IN Slice(s, i + 1 + k, q - 1)

\* \\([a-zA-Z]+)\s+\{   (atLeast = 1)   and   \\([a-zA-Z]+)\s*\{   (atLeast = 0)
command_space_pattern(s, i, atLeast) ==
    LET e1 == LettersEnd(s, i + 1)
        e2 == SpacesEnd(s, e1)
    IN IF /\ StartsAt(s, i, <<BS>>) /\ e1 > i + 1
          /\ e2 - e1 >= atLeast /\ StartsAt(s, e2, <<"{">>)
       THEN e2 + 1 ELSE NoMatch

\* r'\\\1{' for a match of either command-space pattern
CommandSpaceRepl(s, span) == Slice(s, span[1], LettersEnd(s, span[1] + 1)) \o <<"{">>

\* LatexValidator._fix_file_content
_fix_file_content(content) ==
    LET halved == ReplaceFullWidth(content)
        unblanked == Sub(blank_lines_pattern, LAMBDA m : <<NL, NL>>, halved)
        mathed == Sub(math_space_pattern,
                      LAMBDA m : <<"$">> \o MathSpaceGroup(unblanked, m) \o <<"$">>,
                      unblanked)
    IN Sub(LAMBDA s, i : command_space_pattern(s, i, 1),
           LAMBDA m : CommandSpaceRepl(mathed, m), mathed)

\* a report that holds every file, changed or not
auto_fix_issues_of_every_file(fs) ==
    [path \in Range(PathsOf(fs)) |-> _fix_file_content(FileAt(fs, path).content)]

\* LatexValidator.auto_fix_issues: the dict fixed_files it returns
auto_fix_issues(fs) ==
    [path \in {fs[k].path : k \in {j \in 1..Len(fs) :
                                       _fix_file_content(fs[j].content) # fs[j].content}} |->
        _fix_file_content(FileAt(fs, path).content)]

\* what auto_fix_issues appends to fixes_applied, given the dict it returns:
\* the path of f"Fixed issues in {file_path}" per changed file, in the order
\* of analyzer.files
FixesOf(fs, fixed) == SelectSeq(PathsOf(fs), LAMBDA path : path \in DOMAIN fixed)

\* the name -> definition dict of a list of custom definitions: a later
\* definition of a name replaces an earlier one
DefinitionDict(defs) ==
    [name \in {defs[k].name : k \in 1..Len(defs)} |->
        defs[Max({k \in 1..Len(defs) : defs[k].name = name})].definition]

\* LatexProjectAnalyzer.get_translation_context: {} for a file_path that is
\* no key of files
get_translation_context(main, fs, commands, environments, file_path) ==
    IF ~HasFile(fs, file_path) THEN <<>>
    ELSE With(FileAt(fs, file_path), LAMBDA latex_file :
        [file_path |-> file_path,
         is_main_file |-> file_path = main,
         dependencies |-> latex_file.dependencies,
         available_commands |-> standard_commands \cup DOMAIN commands,
         available_environments |-> standard_environments \cup DOMAIN environments,
         custom_commands |-> DefinitionDict(latex_file.custom_commands),
         custom_environments |-> DefinitionDict(latex_file.custom_environments),
         used_commands |-> latex_file.used_commands,
         used_environments |-> latex_file.used_environments,
         labels |-> latex_file.labels,
         citations |-> latex_file.citations,
         refs |-> latex_file.refs])

\* LatexValidator._get_critical_commands
_get_critical_commands(fs, commands, file_path) ==
    IF ~HasFile(fs, file_path) THEN <<>>
    ELSE SelectSeq(SetToSeq(FileAt(fs, file_path).used_commands),
                   LAMBDA cmd : cmd \in DOMAIN commands)

\* LatexValidator._get_safe_translation_rules: the five fixed rules, then the
\* rule that names the file's custom commands and the one that names its
\* custom environments
_get_safe_translation_rules(fs, file_path) ==
    [k \in 1..5 |-> [rule |-> k, names |-> <<>>]]
    \o (IF HasFile(fs, file_path) /\ FileAt(fs, file_path).custom_commands # <<>>
        THEN <<[rule |-> 6,
                names |-> [k \in 1..Len(FileAt(fs, file_path).custom_commands) |->
                              FileAt(fs, file_path).custom_commands[k].name]]>>
        ELSE <<>>)
    \o (IF HasFile(fs, file_path) /\ FileAt(fs, file_path).custom_environments # <<>>
        THEN <<[rule |-> 7,
                names |-> [k \in 1..Len(FileAt(fs, file_path).custom_environments) |->
                              FileAt(fs, file_path).custom_environments[k].name]]>>
        ELSE <<>>)

\* the three keys get_compilation_safe_context adds to the context dict
ValidatorContext(fs, commands, found, file_path) ==
    With(SelectSeq(found, LAMBDA issue : issue.file_path = file_path), LAMBDA file_issues :
        [validation_issues |->
             [k \in 1..Len(file_issues) |->
                 [type |-> file_issues[k].type, severity |-> file_issues[k].severity,
                  message |-> file_issues[k].message]],
         critical_commands |-> _get_critical_commands(fs, commands, file_path),
         safe_translation_rules |-> _get_safe_translation_rules(fs, file_path)])

\* LatexValidator.get_compilation_safe_context: the context dict, updated
\* with the three keys of the validator
get_compilation_safe_context(main, fs, commands, environments, found, file_path) ==
    IF ~HasFile(fs, file_path) THEN ValidatorContext(fs, commands, found, file_path)
    ELSE ValidatorContext(fs, commands, found, file_path)
         @@ get_translation_context(main, fs, commands, environments, file_path)

\* self.files[path].content = content
SetContent(fs, path, content) ==
    [k \in 1..Len(fs) |->
        IF fs[k].path = path THEN [fs[k] EXCEPT !.content = content] ELSE fs[k]]

\* an exit of _validate_translated_content that leaves the file as it is
SetContentSkipped(fs, path, content) == fs

\* the finally clause of _validate_translated_content:
\* self.files[path].content = original_content
RestoreContent(fs, path, content) == SetContent(fs, path, content)

\* the record test_compilation returns when the analyzer has no main file
NoMainFileResult ==
    [success |-> FALSE, error |-> "main file not found", output |-> "", log |-> ""]

\* the ways the with block of test_compilation is left: pdflatex returned with
\* an exit code and perhaps wrote a log file, subprocess.run timed out, or a
\* copy or the start of the compiler raised another exception
RunResults ==
    {[kind |-> "returned", returncode |-> rc, log |-> log] :
        rc \in {0, 1}, log \in {"", "log"}}
    \cup {[kind |-> "TimeoutExpired"], [kind |-> "OSError"]}

\* the record test_compilation returns, by how its with block was left
CompilationResult(left) ==
    CASE left.kind = "returned" ->
            [success |-> left.returncode = 0,
             error |-> IF left.returncode # 0 THEN "stderr" ELSE "",
             output |-> "stdout",
             log |-> left.log,
             return_code |-> left.returncode]
      [] left.kind = "TimeoutExpired" ->
            [success |-> FALSE, error |-> "compilation timed out",
             output |-> "", log |-> ""]
      [] OTHER ->
            [success |-> FALSE, error |-> "compilation error: " \o left.kind,
             output |-> "", log |-> ""]

\* a context manager that leaves its directory behind
TemporaryDirectoryKept(dir) == dir

\* tempfile.TemporaryDirectory.__exit__: the directory is removed however the
\* with block is left
TemporaryDirectoryExit(dir) == "removed"

(***************************************************************************)
(* BaseLatexTranslator                                                      *)
(***************************************************************************)

\* three backticks; the backtick, which a string literal of this module cannot
\* hold, is the one-element token "BQ"
Fence == <<"BQ", "BQ", "BQ">>
LatexWord == <<"l", "a", "t", "e", "x">>
TexWord == <<"t", "e", "x">>

\* the start of group 1 in a match at i of  <fence>(?:latex)?\s*(.*?)<fence>
FenceGroupStart(s, i) ==
    SpacesEnd(s, IF StartsAt(s, i + 3, LatexWord) THEN i + 3 + Len(LatexWord) ELSE i + 3)

\* <fence>(?:latex)?\s*(.*?)<fence>   (DOTALL)
code_block_pattern(s, i) ==
    IF ~StartsAt(s, i, Fence) THEN NoMatch
    ELSE LET c == Find(s, Fence, FenceGroupStart(s, i))
         IN IF c = NoMatch THEN NoMatch ELSE c + 3

\* </?(?:latex|tex)>
xml_tag_pattern(s, i) ==
    IF ~StartsAt(s, i, <<"<">>) THEN NoMatch
    ELSE LET a == IF StartsAt(s, i + 1, <<"/">>) THEN i + 2 ELSE i + 1
         IN IF StartsAt(s, a, LatexWord \o <<">">>) THEN a + Len(LatexWord) + 1
            ELSE IF StartsAt(s, a, TexWord \o <<">">>) THEN a + Len(TexWord) + 1
            ELSE NoMatch

\* BaseLatexTranslator._clean_ai_output
_clean_ai_output(text) ==
    LET unfenced == Sub(code_block_pattern,
                        LAMBDA m : Slice(text, FenceGroupStart(text, m[1]), m[2] - 3),
                        text)
        untagged == Sub(xml_tag_pattern, LAMBDA m : <<>>, unfenced)
    IN Strip(Sub(blank_lines_pattern, LAMBDA m : <<NL, NL>>, untagged))

\* BaseLatexTranslator._fix_latex_syntax
_fix_latex_syntax(text) ==
    LET halved == ReplaceFullWidth(text)
        mathed == Sub(math_space_pattern,
                      LAMBDA m : <<"$">> \o MathSpaceGroup(halved, m) \o <<"$">>,
                      halved)
    IN Sub(LAMBDA s, i : command_space_pattern(s, i, 0),
           LAMBDA m : CommandSpaceRepl(mathed, m), mathed)

\* BaseLatexTranslator._ensure_structure_integrity: it logs and returns text
_ensure_structure_integrity(text) == text

\* BaseLatexTranslator._post_process_translation
_post_process_translation(translated_text) ==
    _ensure_structure_integrity(_fix_latex_syntax(_clean_ai_output(translated_text)))

\* BaseLatexTranslator._validate_translation_result: it logs and returns
\* translated_result
_validate_translation_result(translated_result, original_content) == translated_result

\* translatable_elements of _translate_section and of
\* _translate_section_with_context
TranslatableElements(parsed) ==
    SelectSeq(parsed, LAMBDA e : e.should_translate /\ e.type = "text")

\* the answers the translation collaborator can give to one _translate_text
\* call: the text it was given, a translation, or an exception
Answers == {"same", "other", "raise"}
Translation == <<"T", "r">>

\* the elements the loop of _translate_section calls _translate_text for
Translated(translatable_elements) ==
    SelectSeq(translatable_elements, LAMBDA e : Strip(e.content) # <<>>)

\* the number of _translate_text calls _translate_section makes
CallsFor(translatable_elements) == Len(Translated(translatable_elements))

\* translated_elements of _translate_section: answers[k] is the collaborator's
\* answer for the k-th translatable element that is not whitespace only.  The
\* collaborator is given elem.content.strip(); when it raises, the element's
\* own content is kept
TranslatedElements(translatable_elements, answers) ==
    LET elems == Translated(translatable_elements)
    IN [k \in 1..Len(elems) |->
           << CASE answers[k] = "same" -> Strip(elems[k].content)
                [] answers[k] = "other" -> Translation
                [] answers[k] = "raise" -> elems[k].content,
              elems[k].start_pos, elems[k].end_pos >>]


(***************************************************************************)
(* The state: the arguments and results of the parser and translator       *)
(* calls, and the analyzer and validator objects over one project root.    *)
(***************************************************************************)
VARIABLES
    pc,                 \* the call that returned last
    latex_content,      \* the str a parser, translator or auto-fix call is given
    elements,           \* what LatexParser.parse returned
    translated_parts,   \* the replacement list given to preserve_structure
    merged,             \* what preserve_structure returned
    answers,            \* the collaborator's answer to each _translate_text call
    spliced,            \* result of _translate_section before post-processing
    section_result,     \* what _translate_section returned
    fix_calls,          \* the number of _fix_file_content calls so far
    fix_input,          \* the content given to the last _fix_file_content call
    fixed_content,      \* what the last _fix_file_content call returned
    project_root,       \* the discovered files: [path, content, readable], in order
    main_file,          \* analyzer.main_file
    files,              \* analyzer.files, in insertion order
    global_commands,    \* analyzer.global_commands
    global_environments,\* analyzer.global_environments
    dependency_graph,   \* analyzer.dependency_graph
    compilation_order,  \* analyzer.compilation_order
    issues,             \* validator.issues
    fixes_applied,      \* validator.fixes_applied
    validation,         \* what validate_project returned
    fixed_files,        \* what auto_fix_issues returned
    context_path,       \* the file_path given to get_compilation_safe_context
    context,            \* what get_compilation_safe_context returned
    tmp_dir,            \* the scratch directory of test_compilation
    run_result,         \* how the with block of test_compilation was left
    compilation,        \* what test_compilation returned
    translated_file,    \* the LatexFile given to _validate_translated_content
    original_content,   \* the local original_content of that call
    raised              \* the exception the last call propagated, if any

textVars == <<latex_content, elements, translated_parts, merged, answers, spliced,
              section_result, fix_calls, fix_input, fixed_content>>
analyzerVars == <<project_root, main_file, files, global_commands,
                  global_environments, dependency_graph, compilation_order>>
validatorVars == <<issues, fixes_applied, validation, fixed_files, context_path, context>>
sessionVars == <<tmp_dir, run_result, compilation, translated_file, original_content,
                 raised>>
vars == <<pc, textVars, analyzerVars, validatorVars, sessionVars>>

\* the value of a result no call has produced yet
NoResult == <<>>
EmptyDict == <<>>

(***************************************************************************)
(* The inputs                                                               *)
(***************************************************************************)

\* the number of fragments a parsed source is made of
MaxFrags == 3
\* the length of the original and the number of replacements of a splice
MaxOrig == 4
MaxParts == 2
\* the number of fragments of an auto-fixed content, and of auto-fix calls
MaxFixFrags == 3
MaxFixCalls == 2
\* the number of files of a project and of fragments of a single-file project
MaxFiles == 3
MaxFileFrags == 3
MaxBodyFrags == 2
MaxDefFrags == 2
MaxRefFrags == 2
MaxNamedFiles == 2

\* every concatenation of at most n of the given fragments
Texts(fragments, n) ==
    UNION {{Concat(f) : f \in [1..m -> fragments]} : m \in 0..n}

Fragments == {
    <<BS, "s", "e", "c", "t", "i", "o", "n", "{", "I", "n", "t", "r", "o", "}">>,
    <<"H", "e", "l", "l", "o", " ", "w", "o", "r", "l", "d", ".">>,
    <<BS, "c", "i", "t", "e", "{", "f", "o", "o", "}">>,
    <<BS, "r", "e", "f", "{", "a", "}">>,
    <<BS, "l", "a", "b", "e", "l", "{", "a", "}">>,
    <<BS, "b", "e", "g", "i", "n", "{", "e", "q", "u", "a", "t", "i", "o", "n", "}">>,
    <<BS, "e", "n", "d", "{", "e", "q", "u", "a", "t", "i", "o", "n", "}">>,
    <<"$", "x", "+", "y", "=", "2", "$">>,
    <<"$", "$">>, <<"$">>, <<"%", "c">>, <<" ">>, <<NL>> }

Sources == Texts(Fragments, MaxFrags)

\* the original of a splice: distinct characters, so that a misplaced copy shows
Alphabet == <<"a", "b", "c", "d", "e", "f", "g", "h">>
Originals == {SubSeq(Alphabet, 1, n) : n \in 0..MaxOrig}

ReplacementTexts == {<<>>, <<"X">>, <<"Y", "Z">>}

\* every list of at most MaxParts replacements <<text, start, end>> whose
\* spans lie within the original, in any order and overlapping or not
PartLists(original) ==
    LET Part == {<<x, a, b>> : x \in ReplacementTexts,
                 a \in 0..Len(original), b \in 0..Len(original)}
        Span == {part \in Part : part[2] <= part[3]}
    IN UNION {[1..m -> Span] : m \in 0..MaxParts}

FixFragments == {
    <<"$", " ", "x", " ", "$">>, <<" ", "y", " ">>, <<"$">>, <<"a">>,
    <<"FW(">>, <<"FW)">>, <<NL, NL>>, <<NL>>,
    <<BS, "f", "o", "o">>, <<" ", "{">> }

FixSources == Texts(FixFragments, MaxFixFrags)

MainTex == <<"m", "a", "i", "n", ".", "t", "e", "x">>
DefsTex == <<"d", "e", "f", "s", ".", "t", "e", "x">>
ATex == <<"a", ".", "t", "e", "x">>
ProjectPaths == {MainTex, DefsTex, ATex}

\* the contents of the files of a project with dependencies
DepContents == {
    <<>>,
    <<BS, "i", "n", "p", "u", "t", "{", "d", "e", "f", "s", "}">>,
    <<BS, "i", "n", "c", "l", "u", "d", "e", "{", "a", ".", "t", "e", "x", "}">>,
    <<BS, "s", "u", "b", "f", "i", "l", "e", "{", "m", "a", "i", "n", "}">>,
    <<BS, "i", "n", "p", "u", "t", "{", "m", "i", "s", "s", "i", "n", "g", "}">>,
    <<BS, "i", "n", "p", "u", "t", "{", "d", "e", "f", "s", "}", NL, BS, "i", "n", "p", "u", "t", "{", "a", "}">> }

\* the fragments of the content of a single-file project
SyntaxFragments == {
    <<BS, "d", "o", "c", "u", "m", "e", "n", "t", "c", "l", "a", "s", "s", "{", "a", "r", "t", "i", "c", "l", "e", "}">>,
    <<BS, "b", "e", "g", "i", "n", "{", "d", "o", "c", "u", "m", "e", "n", "t", "}">>,
    <<BS, "e", "n", "d", "{", "d", "o", "c", "u", "m", "e", "n", "t", "}">>,
    <<BS, "b", "e", "g", "i", "n", "{", "t", "h", "e", "o", "r", "e", "m", "}">>,
    <<BS, "e", "n", "d", "{", "t", "h", "e", "o", "r", "e", "m", "}">>,
    <<BS, "f", "o", "o">>, <<"x">>, <<"$">>, <<"{">>, <<NL>> }

\* the injective sequences of at most n elements of S
RECURSIVE Arrangements(_, _)
Arrangements(S, n) ==
    IF n = 0 THEN {<<>>}
    ELSE {<<>>} \cup {<<x>> \o rest : x \in S, rest \in Arrangements(S, n - 1)}

Injective(seq) == \A i, j \in 1..Len(seq) : seq[i] = seq[j] => i = j

Entry(path, content) == [path |-> path, content |-> content, readable |-> TRUE]

\* a project root with at most MaxFiles files in any discovery order, each
\* file with one of DepContents
DepProjects ==
    UNION {{[k \in 1..Len(paths) |-> Entry(paths[k], contents[k])] :
               contents \in [1..Len(paths) -> DepContents]} :
           paths \in {a \in Arrangements(ProjectPaths, MaxFiles) : Injective(a)}}

\* a project root with one file
SyntaxProjects ==
    {<<Entry(path, content)>> : path \in {MainTex, ATex},
                                content \in Texts(SyntaxFragments, MaxFileFrags)}

\* the fragments of the body of a document
BodyFragments == {
    <<BS, "b", "e", "g", "i", "n", "{", "t", "h", "e", "o", "r", "e", "m", "}">>,
    <<BS, "e", "n", "d", "{", "t", "h", "e", "o", "r", "e", "m", "}">>,
    <<BS, "f", "o", "o">>, <<"x">>, <<"$">>, <<"{">>, <<NL>> }

\* \documentclass{article}\begin{document} body \end{document}
Document(body) ==
    <<BS, "d", "o", "c", "u", "m", "e", "n", "t", "c", "l", "a", "s", "s", "{", "a", "r", "t", "i", "c", "l", "e", "}">>
    \o BeginDocumentLit \o body \o EndDocumentLit

\* a project root with one file that has the three parts of a document
DocumentProjects ==
    {<<Entry(path, Document(body))>> : path \in {MainTex, ATex},
                                       body \in Texts(BodyFragments, MaxBodyFrags)}

\* the definition directives and a use of a defined command
DefFragments == {
    <<BS, "d", "e", "f", BS, "q", "{", "x", "}">>,
    <<BS, "d", "e", "f", BS, "q", "{", "3", "}">>,
    <<BS, "n", "e", "w", "c", "o", "m", "m", "a", "n", "d", "{", BS, "f", "o", "o", "}", "[", "2", "]", "{", "x", "}">>,
    <<BS, "r", "e", "n", "e", "w", "c", "o", "m", "m", "a", "n", "d", "{", BS, "f", "o", "o", "}", "{", "z", "}">>,
    <<BS, "n", "e", "w", "e", "n", "v", "i", "r", "o", "n", "m", "e", "n", "t", "{", "t", "h", "m", "}", "{", "a", "}", "{", "b", "}">>,
    <<BS, "r", "e", "n", "e", "w", "e", "n", "v", "i", "r", "o", "n", "m", "e", "n", "t", "{", "t", "h", "m", "}", "[", "1", "]", "{", "c", "}", "{", "d", "}">>,
    <<BS, "f", "o", "o">> }

\* a project root of main.tex alone, or of main.tex and defs.tex in either
\* discovery order, defs.tex holding at most one of DefFragments
DefinitionProjects ==
    LET mains == {Entry(MainTex, c) : c \in Texts(DefFragments, MaxDefFrags)}
        defs == {Entry(DefsTex, c) : c \in Texts(DefFragments, 1)}
    IN {<<m>> : m \in mains}
       \cup {<<m, d>> : m \in mains, d \in defs}
       \cup {<<d, m>> : m \in mains, d \in defs}

\* references and labels
RefFragments == {
    <<BS, "r", "e", "f", "{", "a", "}">>,
    <<BS, "e", "q", "r", "e", "f", "{", "b", "}">>,
    <<BS, "C", "r", "e", "f", "*", "{", "a", "}">>,
    <<BS, "l", "a", "b", "e", "l", "{", "a", "}">>,
    <<BS, "l", "a", "b", "e", "l", "{", "b", "}">> }

\* a project root of main.tex and a.tex with references and labels, a.tex
\* holding at most one of RefFragments
ReferenceProjects ==
    {<<Entry(MainTex, c), Entry(ATex, d)>> :
        c \in Texts(RefFragments, MaxRefFrags), d \in Texts(RefFragments, 1)}

PaperTex == <<"p", "a", "p", "e", "r", ".", "t", "e", "x">>
ArticleTex == <<"a", "r", "t", "i", "c", "l", "e", ".", "t", "e", "x">>
BTex == <<"b", ".", "t", "e", "x">>

\* a project root of at most MaxNamedFiles files, with and without a
\* conventional name, with and without \documentclass, with and without
\* content that the auto-fix changes, readable or not, in any discovery order
NamedProjects ==
    UNION {{[k \in 1..Len(paths) |->
                [path |-> paths[k], content |-> contents[k], readable |-> flags[k]]] :
               contents \in [1..Len(paths) ->
                   {<<"x">>,
                    <<"$", " ", "x", " ", "$">>,
                    <<BS, "d", "o", "c", "u", "m", "e", "n", "t", "c", "l", "a", "s", "s", "{", "a", "r", "t", "i", "c", "l", "e", "}">>}],
               flags \in [1..Len(paths) -> BOOLEAN]} :
           paths \in {a \in Arrangements({MainTex, PaperTex, ArticleTex, ATex, BTex},
                                          MaxNamedFiles) : Injective(a)}}

\* the projects whose translated files are validated: main.tex, a document or
\* plain text, alone or followed by a.tex
TranslationProjects ==
    {<<Entry(MainTex, content)>> : content \in {Document(<<"x">>), <<"x">>}}
    \cup {<<Entry(MainTex, content), Entry(ATex, <<"$", " ", "x", " ", "$">>)>> :
             content \in {Document(<<"x">>), <<"x">>}}

\* the paths and the contents of the translated files given for validation
TranslatedPaths == {MainTex, ATex, BTex}
TranslatedContents == {
    Document(<<"y">>),
    Document(<<BS, "b", "e", "g", "i", "n", "{", "t", "h", "e", "o", "r", "e", "m", "}">>),
    <<"FW(", "y", "FW)">>,
    <<"$", " ", "y", " ", "$">> }

\* the projects that are validated repeatedly: documents of one file, and
\* main.tex with a second file
RevalidationProjects ==
    {<<Entry(MainTex, Document(body))>> : body \in Texts(BodyFragments, 1)}
    \cup TranslationProjects
    \cup {<<Entry(MainTex, <<"$", " ", "x", " ", "$">>),
            [path |-> ATex, content |-> <<"x">>, readable |-> flag]>> :
             flag \in BOOLEAN}

Projects == DepProjects \cup SyntaxProjects \cup DocumentProjects
            \cup DefinitionProjects \cup ReferenceProjects \cup NamedProjects

(***************************************************************************)
(* Initial states: the objects as their constructors leave them            *)
(***************************************************************************)

NoTextCall ==
    /\ elements = NoResult
    /\ translated_parts = <<>>
    /\ merged = NoResult
    /\ answers = <<>>
    /\ spliced = NoResult
    /\ section_result = NoResult
    /\ fix_calls = 0
    /\ fix_input = NoResult
    /\ fixed_content = NoResult

\* LatexProjectAnalyzer.__init__
FreshAnalyzer ==
    /\ main_file = None
    /\ files = <<>>
    /\ global_commands = EmptyDict
    /\ global_environments = EmptyDict
    /\ dependency_graph = EmptyDict
    /\ compilation_order = <<>>

\* LatexValidator.__init__
FreshValidator ==
    /\ issues = <<>>
    /\ fixes_applied = <<>>
    /\ validation = NoResult
    /\ fixed_files = NoResult
    /\ context_path = None
    /\ context = NoResult

\* no test compilation and no validation of a translated file has been asked for
NoSession ==
    /\ tmp_dir = "none"
    /\ run_result = NoResult
    /\ compilation = NoResult
    /\ translated_file = NoResult
    /\ original_content = NoResult
    /\ raised = "none"

NoProject == project_root = <<>> /\ FreshAnalyzer /\ FreshValidator /\ NoSession

\* a parser and a translator, given a source
Init ==
    /\ pc = "ready"
    /\ latex_content \in Sources
    /\ NoTextCall
    /\ NoProject

\* a parser, given an original and a replacement list
InitSplice ==
    /\ pc = "ready"
    /\ latex_content \in Originals
    /\ translated_parts \in PartLists(latex_content)
    /\ elements = NoResult /\ merged = NoResult /\ answers = <<>>
    /\ spliced = NoResult /\ section_result = NoResult
    /\ fix_calls = 0 /\ fix_input = NoResult /\ fixed_content = NoResult
    /\ NoProject

\* a validator, given the content of a file
InitFix ==
    /\ pc = "ready"
    /\ latex_content \in FixSources
    /\ NoTextCall
    /\ NoProject

\* an analyzer and a validator over a project root
InitProject ==
    /\ pc = "constructed"
    /\ project_root \in Projects
    /\ latex_content = <<>>
    /\ NoTextCall
    /\ FreshAnalyzer
    /\ FreshValidator
    /\ NoSession

(***************************************************************************)
(* The calls                                                                *)
(***************************************************************************)

\* LatexParser.parse(latex_content)
Parse ==
    /\ pc = "ready"
    /\ elements' = parse(latex_content)
    /\ pc' = "parsed"
    /\ UNCHANGED <<latex_content, translated_parts, merged, answers, spliced,
                   section_result, fix_calls, fix_input, fixed_content>>
    /\ UNCHANGED <<analyzerVars, validatorVars, sessionVars>>

\* LatexParser.extract_translatable_text(latex_content); elements is its local
ExtractTranslatableText ==
    /\ pc = "ready"
    /\ \E parsed \in {parse(latex_content)} :
          /\ elements' = parsed
          /\ translated_parts' = TranslatableParts(parsed)
    /\ pc' = "extracted"
    /\ UNCHANGED <<latex_content, merged, answers, spliced,
                   section_result, fix_calls, fix_input, fixed_content>>
    /\ UNCHANGED <<analyzerVars, validatorVars, sessionVars>>

\* LatexParser.preserve_structure(latex_content, translated_parts), on a given
\* list or on the list extract_translatable_text returned
PreserveStructure ==
    /\ pc \in {"ready", "extracted"}
    /\ merged' = preserve_structure(latex_content, translated_parts)
    /\ pc' = "merged"
    /\ UNCHANGED <<latex_content, elements, translated_parts, answers, spliced,
                   section_result, fix_calls, fix_input, fixed_content>>
    /\ UNCHANGED <<analyzerVars, validatorVars, sessionVars>>

\* the return of a section translation
SectionReturn(a, result, returned, label) ==
    /\ answers' = a
    /\ spliced' = result
    /\ section_result' = returned
    /\ pc' = label
    /\ UNCHANGED <<latex_content, elements, translated_parts, merged,
                   fix_calls, fix_input, fixed_content>>
    /\ UNCHANGED <<analyzerVars, validatorVars, sessionVars>>

\* BaseLatexTranslator._translate_section(latex_content, ...): a section
\* without a Text element is returned as it is; otherwise the collaborator
\* answers call by call, the answers are spliced in (result) and the splice is
\* post-processed
TranslateSection ==
    /\ pc = "ready"
    /\ \E translatable_elements \in {TranslatableElements(parse(latex_content))} :
          IF translatable_elements = <<>>
          THEN SectionReturn(<<>>, NoResult, latex_content, "untranslated")
          ELSE \E a \in [1..CallsFor(translatable_elements) -> Answers] :
                  \E result \in {preserve_structure(
                                     latex_content,
                                     TranslatedElements(translatable_elements, a))} :
                     SectionReturn(a, result, _post_process_translation(result),
                                   "translated")

\* BaseLatexTranslator._translate_section_with_context(latex_content, ...)
TranslateSectionWithContext ==
    /\ pc = "ready"
    /\ \E translatable_elements \in {TranslatableElements(parse(latex_content))} :
          IF translatable_elements = <<>>
          THEN SectionReturn(<<>>, NoResult, latex_content, "untranslated")
          ELSE \E a \in [1..CallsFor(translatable_elements) -> Answers] :
                  \E result \in {preserve_structure(
                                     latex_content,
                                     TranslatedElements(translatable_elements, a))} :
                     \E processed \in {_post_process_translation(result)} :
                        SectionReturn(a, result,
                                      _validate_translation_result(processed,
                                                                   latex_content),
                                      "translated_with_context")

\* LatexValidator._fix_file_content, on the content and then on what the call
\* before returned
FixFileContent ==
    /\ pc \in {"ready", "fixed"}
    /\ fix_calls < MaxFixCalls
    /\ fix_input' = IF fix_calls = 0 THEN latex_content ELSE fixed_content
    /\ fixed_content' = _fix_file_content(fix_input')
    /\ fix_calls' = fix_calls + 1
    /\ pc' = "fixed"
    /\ UNCHANGED <<latex_content, elements, translated_parts, merged, answers,
                   spliced, section_result>>
    /\ UNCHANGED <<analyzerVars, validatorVars, sessionVars>>

\* LatexProjectAnalyzer.analyze_project: when _analyze_file raises, the files
\* analysed before it and main_file stay set and nothing else is built
AnalyzeProject ==
    /\ pc = "constructed"
    /\ \E analysed \in {AnalyzeFiles(project_root, 1, files)} :
          /\ main_file' = _find_main_file(project_root)
          /\ files' = analysed.files
          /\ IF analysed.raised
             THEN /\ pc' = "analysis_raised"
                  /\ UNCHANGED <<dependency_graph, compilation_order,
                                 global_commands, global_environments>>
             ELSE /\ pc' = "analyzed"
                  /\ \E graph \in {_build_dependency_graph(analysed.files)} :
                        dependency_graph' =
                            [path \in DOMAIN dependency_graph \cup DOMAIN graph |->
                                IF path \in DOMAIN graph THEN graph[path]
                                ELSE dependency_graph[path]]
                  /\ compilation_order' =
                         _determine_compilation_order(analysed.files, dependency_graph')
                  /\ global_commands' = IntegrateCommands(global_commands, analysed.files)
                  /\ global_environments' =
                         IntegrateEnvironments(global_environments, analysed.files)
    /\ UNCHANGED <<project_root, textVars, validatorVars, sessionVars>>

\* a validation that appends to the issues found before
IssuesAccumulated(previous, main, fs, commands) ==
    previous \o ProjectIssues(main, fs, commands)

\* validator.issues when validate_project returns: the list is emptied first
IssuesOfCall(previous, main, fs, commands) == ProjectIssues(main, fs, commands)

\* LatexValidator.validate_project
ValidateProject ==
    /\ pc \in {"analyzed", "validated"}
    /\ issues' = IssuesOfCall(issues, main_file, files, global_commands)
    /\ fixes_applied' = <<>>
    /\ validation' = ValidationResult(issues', fixes_applied')
    /\ pc' = "validated"
    /\ UNCHANGED <<fixed_files, context_path, context, textVars, analyzerVars,
                   sessionVars>>

\* the dict validate_project returned last, whose 'fixes_applied' is the list
\* object validator.fixes_applied, after that list has become fixes
AliasedResult(result, fixes) ==
    IF result = NoResult THEN result ELSE [result EXCEPT !.fixes_applied = fixes]

\* LatexValidator.auto_fix_issues
AutoFixIssues ==
    /\ pc \in {"analyzed", "validated"}
    /\ \E fixed \in {auto_fix_issues(files)} :
          /\ fixed_files' = fixed
          /\ fixes_applied' = fixes_applied \o FixesOf(files, fixed)
    /\ validation' = AliasedResult(validation, fixes_applied')
    /\ pc' = "auto_fixed"
    /\ UNCHANGED <<issues, context_path, context, textVars, analyzerVars,
                   sessionVars>>

\* LatexValidator.validate_project, called again after auto_fix_issues or
\* get_compilation_safe_context returned
RevalidateProject ==
    /\ pc \in {"auto_fixed", "context_returned"}
    /\ issues' = IssuesOfCall(issues, main_file, files, global_commands)
    /\ fixes_applied' = <<>>
    /\ validation' = ValidationResult(issues', fixes_applied')
    /\ pc' = "validated"
    /\ UNCHANGED <<fixed_files, context_path, context, textVars, analyzerVars,
                   sessionVars>>

\* the file paths a context is asked for
ContextPaths == {MainTex, DefsTex}

\* LatexValidator.get_compilation_safe_context(file_path)
GetCompilationSafeContext ==
    /\ pc \in {"analyzed", "validated"}
    /\ \E file_path \in ContextPaths :
          /\ context_path' = file_path
          /\ context' = get_compilation_safe_context(main_file, files, global_commands,
                             global_environments, issues, file_path)
    /\ pc' = "context_returned"
    /\ UNCHANGED <<issues, fixes_applied, validation, fixed_files, textVars, analyzerVars,
                   sessionVars>>

\* LatexValidator.test_compilation, up to the with block: without a main file
\* it returns at once; otherwise tempfile.TemporaryDirectory creates the
\* scratch directory, or raises and the call returns the error record
TestCompilation ==
    /\ pc \in {"constructed", "analyzed"}
    /\ IF main_file = None
       THEN /\ compilation' = NoMainFileResult
            /\ pc' = "compiled"
            /\ UNCHANGED tmp_dir
       ELSE \/ /\ tmp_dir' = "exists"
               /\ pc' = "compiling"
               /\ UNCHANGED compilation
            \/ /\ compilation' = CompilationResult([kind |-> "OSError"])
               /\ pc' = "compiled"
               /\ UNCHANGED tmp_dir
    /\ UNCHANGED <<run_result, translated_file, original_content, raised>>
    /\ UNCHANGED <<textVars, analyzerVars, validatorVars>>

\* the body of the with block: the files are copied and pdflatex is run
RunCompiler ==
    /\ pc = "compiling"
    /\ run_result' \in RunResults
    /\ pc' = "leaving"
    /\ UNCHANGED <<tmp_dir, compilation, translated_file, original_content, raised>>
    /\ UNCHANGED <<textVars, analyzerVars, validatorVars>>

\* the with block is left, by the return or by the exception, and the call
\* returns its record
LeaveTemporaryDirectory ==
    /\ pc = "leaving"
    /\ tmp_dir' = TemporaryDirectoryExit(tmp_dir)
    /\ compilation' = CompilationResult(run_result)
    /\ pc' = "compiled"
    /\ UNCHANGED <<run_result, translated_file, original_content, raised>>
    /\ UNCHANGED <<textVars, analyzerVars, validatorVars>>

\* BaseLatexTranslator._validate_translated_content(translated_file, ...) of a
\* translator that holds the analyzer and the validator, up to the try block:
\* the look-up of a path that is no key of files raises KeyError; otherwise the
\* content is kept in original_content and overwritten
ValidateTranslatedContent ==
    /\ pc = "analyzed"
    /\ \E path \in TranslatedPaths, content \in TranslatedContents :
          /\ translated_file' = [path |-> path, content |-> content]
          /\ IF ~HasFile(files, path)
             THEN /\ raised' = "KeyError"
                  /\ pc' = "translation_validated"
                  /\ UNCHANGED <<original_content, files>>
             ELSE /\ original_content' = FileAt(files, path).content
                  /\ files' = SetContent(files, path, content)
                  /\ pc' = "validating"
                  /\ UNCHANGED raised
    /\ UNCHANGED <<tmp_dir, run_result, compilation>>
    /\ UNCHANGED <<project_root, main_file, global_commands, global_environments,
                   dependency_graph, compilation_order>>
    /\ UNCHANGED <<textVars, validatorVars>>

\* the try block: validate_project and, with errors, auto_fix_issues, whose
\* result for the path replaces translated_file.content; either call may raise
ValidateTranslation ==
    /\ pc = "validating"
    /\ \/ /\ raised' = "validate_project raised"
          /\ UNCHANGED <<issues, fixes_applied, validation, fixed_files, translated_file>>
       \/ \E found \in {ProjectIssues(main_file, files, global_commands)} :
             /\ issues' = found
             /\ IF CountSeverity(found, "error") > 0
                THEN \/ /\ raised' = "auto_fix_issues raised"
                        /\ fixes_applied' = <<>>
                        /\ UNCHANGED <<fixed_files, translated_file>>
                     \/ \E fixed \in {auto_fix_issues(files)} :
                           /\ fixed_files' = fixed
                           /\ fixes_applied' = FixesOf(files, fixed)
                           /\ translated_file' =
                                 IF translated_file.path \in DOMAIN fixed
                                 THEN [translated_file EXCEPT
                                          !.content = fixed[translated_file.path]]
                                 ELSE translated_file
                           /\ UNCHANGED raised
                ELSE /\ fixes_applied' = <<>>
                     /\ UNCHANGED <<fixed_files, translated_file, raised>>
             /\ validation' = ValidationResult(found, fixes_applied')
    /\ pc' = "restoring"
    /\ UNCHANGED <<tmp_dir, run_result, compilation, original_content>>
    /\ UNCHANGED <<context_path, context, textVars, analyzerVars>>

\* the finally clause, after the try block returned or raised
RestoreTranslatedFile ==
    /\ pc = "restoring"
    /\ files' = RestoreContent(files, translated_file.path, original_content)
    /\ pc' = "translation_validated"
    /\ UNCHANGED <<project_root, main_file, global_commands, global_environments,
                   dependency_graph, compilation_order>>
    /\ UNCHANGED <<textVars, validatorVars, sessionVars>>

Next ==
    \/ Parse
    \/ ExtractTranslatableText
    \/ PreserveStructure
    \/ TranslateSection
    \/ TranslateSectionWithContext
Spec == Init /\ [][Next]_vars

NextSplice == PreserveStructure
SpecSplice == InitSplice /\ [][NextSplice]_vars

NextFix == FixFileContent
SpecFix == InitFix /\ [][NextFix]_vars

NextProject ==
    AnalyzeProject \/ ValidateProject \/ AutoFixIssues \/ GetCompilationSafeContext
SpecProject == InitProject /\ [][NextProject]_vars

\* an analyzer and a validator over a project root, and a test compilation
InitCompile ==
    /\ pc = "constructed"
    /\ project_root \in NamedProjects
    /\ latex_content = <<>>
    /\ NoTextCall
    /\ FreshAnalyzer
    /\ FreshValidator
    /\ NoSession

\* an analyzer and a validator over a project root, held by a translator
InitTranslation ==
    /\ pc = "constructed"
    /\ project_root \in TranslationProjects
    /\ latex_content = <<>>
    /\ NoTextCall
    /\ FreshAnalyzer
    /\ FreshValidator
    /\ NoSession

NextTranslation ==
    \/ AnalyzeProject
    \/ ValidateTranslatedContent
    \/ ValidateTranslation
    \/ RestoreTranslatedFile
SpecTranslation == InitTranslation /\ [][NextTranslation]_vars

\* an analyzer and a validator over a project root, validated repeatedly
InitRevalidate ==
    /\ pc = "constructed"
    /\ project_root \in RevalidationProjects
    /\ latex_content = <<>>
    /\ NoTextCall
    /\ FreshAnalyzer
    /\ FreshValidator
    /\ NoSession

NextRevalidate ==
    \/ AnalyzeProject
    \/ ValidateProject
    \/ AutoFixIssues
    \/ GetCompilationSafeContext
    \/ RevalidateProject
SpecRevalidate == InitRevalidate /\ [][NextRevalidate]_vars

NextCompile == AnalyzeProject \/ TestCompilation \/ RunCompiler \/ LeaveTemporaryDirectory
SpecCompile == InitCompile /\ [][NextCompile]_vars

(***************************************************************************)
(* Properties of LatexParser.parse, checked under Spec                      *)
(***************************************************************************)

\* the contents of the parsed elements, joined in the returned order
JoinedContents == Concat([k \in 1..Len(elements) |-> elements[k].content])

\* C1: round-trip.  For any source string, concatenating the content fields
\* of the elements parse returns, in the returned order, reproduces the source
\* exactly.
C1_RoundTrip == pc = "parsed" => JoinedContents = latex_content

\* whether the ranges [start_pos, end_pos) of two elements share a position
Intersect(e, f) ==
    \E q \in 0..Len(latex_content) :
        /\ e.start_pos <= q /\ q < e.end_pos
        /\ f.start_pos <= q /\ q < f.end_pos

\* the returned elements are in the order of their start_pos
SortedByStartPos ==
    \A k \in 1..(Len(elements) - 1) : elements[k].start_pos <= elements[k + 1].start_pos

\* each element starts where the one before it ends, the first at 0, and the
\* last ends at the end of the source
Contiguous ==
    /\ \A k \in 1..(Len(elements) - 1) : elements[k + 1].start_pos = elements[k].end_pos
    /\ elements # <<>> => /\ elements[1].start_pos = 0
                          /\ elements[Len(elements)].end_pos = Len(latex_content)

\* C2: non-overlap.  In the list parse returns no two elements' ranges
\* intersect, the ranges are sorted by start_pos, and they are contiguous: each
\* element starts where the previous one ends, the first starts at 0 and the
\* last ends at len(source).
C2_NonOverlap ==
    pc = "parsed" =>
        /\ \A i, j \in 1..Len(elements) : i # j => ~Intersect(elements[i], elements[j])
        /\ SortedByStartPos
        /\ Contiguous

(***************************************************************************)
(* Properties of LatexParser.preserve_structure, checked under SpecSplice   *)
(***************************************************************************)

\* every span of the replacement list lies within [0, len(original)]
SpansInRange ==
    \A k \in 1..Len(translated_parts) :
        /\ 0 <= translated_parts[k][2]
        /\ translated_parts[k][2] <= translated_parts[k][3]
        /\ translated_parts[k][3] <= Len(latex_content)

\* the replacement list is sorted by start
SpansSortedByStart ==
    \A k \in 1..(Len(translated_parts) - 1) :
        translated_parts[k][2] <= translated_parts[k + 1][2]

\* no position of the original lies in two spans of the list
SpansPairwiseDisjoint ==
    \A i, j \in 1..Len(translated_parts) :
        i # j => ~\E q \in 0..Len(latex_content) :
                     /\ translated_parts[i][2] <= q /\ q < translated_parts[i][3]
                     /\ translated_parts[j][2] <= q /\ q < translated_parts[j][3]

\* each span ends no later than the next one starts
SpansFollowEachOther ==
    \A k \in 1..(Len(translated_parts) - 1) :
        translated_parts[k][3] <= translated_parts[k + 1][2]

\* whether position q lies in a span of the list parts
InSomeSpan(parts, q) ==
    \E k \in 1..Len(parts) : parts[k][2] <= q /\ q < parts[k][3]

\* the texts of the spans of parts that start at position q, in list order
TextsStartingAt(parts, q) ==
    Concat([k \in 1..Len(parts) |-> IF parts[k][2] = q THEN parts[k][1] ELSE <<>>])

\* original with each [start, end) region of parts replaced by its text and
\* every other position copied verbatim, position by position
RegionsReplacedIn(original, parts) ==
    Concat([q \in 1..(Len(original) + 1) |->
               TextsStartingAt(parts, q - 1)
               \o (IF q <= Len(original) /\ ~InSomeSpan(parts, q - 1)
                   THEN <<original[q]>> ELSE <<>>)])

RegionsReplaced == RegionsReplacedIn(latex_content, translated_parts)

\* C3, as stated: for any original and any replacement list whose spans lie
\* within [0, len(S)], are sorted by start and are pairwise disjoint,
\* preserve_structure returns S with each region replaced by its text and
\* every other region copied verbatim (and S itself for the empty list).
C3_SpliceBackAsStated ==
    pc = "merged" /\ SpansInRange /\ SpansSortedByStart /\ SpansPairwiseDisjoint
        => merged = RegionsReplaced

\* C3, amended: the same, for replacement lists in which each span ends no
\* later than the next one starts, which excludes an empty span placed inside
\* or at the start of a non-empty span that precedes it in the list; for the
\* empty list preserve_structure returns S unchanged.
C3_SpliceBack ==
    /\ pc = "merged" /\ SpansInRange /\ SpansFollowEachOther
           => merged = RegionsReplaced
    /\ pc = "merged" /\ translated_parts = <<>> => merged = latex_content

\* two replacements with original text before, between and after them
C3_Witness ==
    /\ pc = "merged"
    /\ Len(translated_parts) = 2
    /\ SpansInRange /\ SpansFollowEachOther
    /\ 0 < translated_parts[1][2]
    /\ translated_parts[1][2] < translated_parts[1][3]
    /\ translated_parts[1][3] < translated_parts[2][2]
    /\ translated_parts[2][3] < Len(latex_content)
    /\ translated_parts[1][1] # <<>>
    /\ translated_parts[2][1] # <<>>
    /\ merged = RegionsReplaced
    /\ merged # latex_content

(***************************************************************************)
(* Properties of the section translation, checked under Spec                *)
(***************************************************************************)

\* a section translation has returned after its splice step
SectionSpliced == pc \in {"translated", "translated_with_context"}

\* the (text, start, end) list the splice step was given
SubstitutedSpans ==
    TranslatedElements(TranslatableElements(parse(latex_content)), answers)

\* the collaborator returned each text it was given unchanged
CollaboratorEchoes == \A k \in DOMAIN answers : answers[k] = "same"

\* C4: byte-for-byte reconstruction.  In _translate_section and
\* _translate_section_with_context the string the splice step produces differs
\* from the section content only inside the substituted Text spans, and when
\* the collaborator returns each text it was given unchanged, that string
\* equals the section content exactly, including the whitespace and newlines
\* at the edges of every Text span.
C4_ByteForByte ==
    SectionSpliced =>
        /\ spliced = RegionsReplacedIn(latex_content, SubstitutedSpans)
        /\ CollaboratorEchoes => spliced = latex_content

(***************************************************************************)
(* Properties of LatexProjectAnalyzer.analyze_project, checked under       *)
(* SpecProject                                                              *)
(***************************************************************************)

\* analyze_project has returned
Analyzed == pc \in {"analyzed", "validated"}

\* the paths _find_latex_files discovered
Discovered == {project_root[k].path : k \in 1..Len(project_root)}

\* the edges F -> D of dependency_graph
GraphEdges ==
    UNION {{<<F, dependency_graph[F][k]>> : k \in 1..Len(dependency_graph[F])} :
           F \in DOMAIN dependency_graph}

\* C5: dependency soundness: after analyze_project, dependency_graph has an
\* entry for every discovered file F, every path listed in dependency_graph[F]
\* is a key of files (a discovered file), and a dependency of F that is no
\* discovered file is no edge of F
C5_DependencySoundness ==
    Analyzed =>
        \A F \in Discovered :
            /\ F \in DOMAIN dependency_graph
            /\ \A k \in 1..Len(dependency_graph[F]) :
                  /\ HasFile(files, dependency_graph[F][k])
                  /\ dependency_graph[F][k] \in Discovered
            /\ \A dep \in Range(FileAt(files, F).dependencies) :
                  dep \notin Discovered => <<F, dep>> \notin GraphEdges

\* main.tex records two dependencies, one a discovered file and one not, and
\* has the one edge
C5_Witness ==
    /\ pc = "analyzed"
    /\ HasFile(files, MainTex)
    /\ Len(FileAt(files, MainTex).dependencies) = 2
    /\ \E dep \in Range(FileAt(files, MainTex).dependencies) : dep \notin Discovered
    /\ MainTex \in DOMAIN dependency_graph
    /\ Len(dependency_graph[MainTex]) = 1

\* the files reached from the set S by at most n edges, n >= 1
RECURSIVE ReachedFrom(_, _)
ReachedFrom(S, n) ==
    LET step == {e[2] : e \in {e \in GraphEdges : e[1] \in S}}
    IN IF n <= 1 THEN step ELSE step \cup ReachedFrom(step, n - 1)

\* dependency_graph has a cycle
Cyclic ==
    \E F \in DOMAIN dependency_graph :
        F \in ReachedFrom({F}, Cardinality(DOMAIN dependency_graph))

\* D appears before F in compilation_order
OrderedBefore(D, F) ==
    \E i, j \in 1..Len(compilation_order) :
        /\ i < j
        /\ compilation_order[i] = D
        /\ compilation_order[j] = F

\* main.tex holds \input{defs} and defs.tex is a discovered file
MainInputsDefs ==
    /\ HasFile(files, MainTex)
    /\ Contains(FileAt(files, MainTex).content,
                <<BS, "i", "n", "p", "u", "t", "{", "d", "e", "f", "s", "}">>)
    /\ DefsTex \in Discovered

\* C6: compilation order validity: when dependency_graph has no cycle, for
\* every edge F -> D the file D appears before F in compilation_order,
\* whatever the discovery order; main.tex holding \input{defs} with defs.tex
\* present gives the edge main.tex -> defs.tex
C6_CompilationOrder ==
    Analyzed =>
        /\ ~Cyclic => \A e \in GraphEdges : OrderedBefore(e[2], e[1])
        /\ MainInputsDefs => <<MainTex, DefsTex>> \in GraphEdges

\* main.tex is discovered first, inputs defs.tex and a.tex, and is compiled last
C6_Witness ==
    /\ pc = "analyzed"
    /\ Len(project_root) = 3
    /\ project_root[1].path = MainTex
    /\ MainInputsDefs
    /\ ~Cyclic
    /\ <<MainTex, ATex>> \in GraphEdges
    /\ compilation_order = <<DefsTex, ATex, MainTex>>

(***************************************************************************)
(* Properties of LatexValidator.validate_project, checked under SpecProject *)
(***************************************************************************)

\* the positions of the returned issues that have severity error
ErrorIssues == {k \in 1..Len(validation.issues) : validation.issues[k].severity = "error"}

\* C7: in every result of validate_project, is_compilable is true if and only
\* if no issue of the returned issues list has severity error, and
\* error_count is the number of the issues of severity error
C7_CompilableIffNoError ==
    pc = "validated" =>
        /\ validation.is_compilable <=> ErrorIssues = {}
        /\ validation.error_count = Cardinality(ErrorIssues)

\* a result with two errors or more and a warning, which is not compilable
C7_Witness ==
    /\ pc = "validated"
    /\ Cardinality(ErrorIssues) >= 2
    /\ Cardinality(ErrorIssues) < Len(validation.issues)
    /\ ~validation.is_compilable

TheoremName == <<"t", "h", "e", "o", "r", "e", "m">>

\* the content holds \begin{theorem} and no \end{theorem}
UnclosedTheorem(content) ==
    /\ Contains(content, BeginLit \o TheoremName \o <<"}">>)
    /\ ~Contains(content, EndLit \o TheoremName \o <<"}">>)

\* C9: unclosed environment detection: for a file that holds \begin{theorem}
\* with no matching \end{theorem}, validate_project reports an issue of
\* severity error and type unclosed_environment that names theorem
C9_UnclosedEnvironment ==
    pc = "validated" =>
        \A k \in 1..Len(files) :
            UnclosedTheorem(files[k].content) =>
                \E i \in 1..Len(validation.issues) :
                    /\ validation.issues[i].type = "unclosed_environment"
                    /\ validation.issues[i].severity = "error"
                    /\ validation.issues[i].file_path = files[k].path
                    /\ validation.issues[i].message = TheoremName

\* the positions of the returned issues that are a missing_dependency error
\* of the file F
MissingDependencyIssues(F) ==
    {i \in 1..Len(validation.issues) :
        /\ validation.issues[i].type = "missing_dependency"
        /\ validation.issues[i].severity = "error"
        /\ validation.issues[i].file_path = F}

\* the project is main.tex alone, holding \input{missing} and nothing else
OnlyMainInputsMissing ==
    /\ Len(project_root) = 1
    /\ project_root[1].path = MainTex
    /\ project_root[1].content =
           <<BS, "i", "n", "p", "u", "t", "{", "m", "i", "s", "s", "i", "n", "g", "}">>

\* C10: missing dependency: whenever a file F records a dependency that is
\* not among the discovered files, validate_project reports a
\* missing_dependency issue of severity error with file_path F for it and
\* is_compilable is false; main.tex with a single \input{missing} and no
\* missing.tex has exactly one such issue
C10_MissingDependency ==
    pc = "validated" =>
        /\ \A k \in 1..Len(files) :
              \A dep \in Range(files[k].dependencies) :
                  dep \notin Discovered =>
                      /\ \E i \in MissingDependencyIssues(files[k].path) :
                            validation.issues[i].message = dep
                      /\ ~validation.is_compilable
        /\ OnlyMainInputsMissing =>
              /\ Cardinality(MissingDependencyIssues(MainTex)) = 1
              /\ \A i \in 1..Len(validation.issues) :
                    validation.issues[i].type = "missing_dependency"
                        => i \in MissingDependencyIssues(MainTex)

\* main.tex with the single \input{missing} has been validated: the recorded
\* dependency is missing.tex and the result is not compilable
C10_Witness ==
    /\ pc = "validated"
    /\ OnlyMainInputsMissing
    /\ files[1].dependencies = <<<<"m", "i", "s", "s", "i", "n", "g", ".", "t", "e", "x">>>>
    /\ Cardinality(MissingDependencyIssues(MainTex)) = 1
    /\ ~validation.is_compilable

(***************************************************************************)
(* Properties of LatexValidator._fix_file_content, checked under SpecFix   *)
(***************************************************************************)

\* the number of positions of s that hold the character c
Occurrences(s, c) == Cardinality({k \in 1..Len(s) : s[k] = c})

\* C8: auto-fix idempotence: applying _fix_file_content to its own result
\* gives that result again, and content holding full-width parentheses has
\* each of them replaced by the ASCII one
C8_AutoFixIdempotent ==
    /\ fix_calls >= 2 => fixed_content = fix_input
    /\ fix_calls = 1 =>
          /\ Occurrences(fixed_content, "FW(") = 0
          /\ Occurrences(fixed_content, "FW)") = 0
          /\ Occurrences(fixed_content, "(") =
                 Occurrences(fix_input, "(") + Occurrences(fix_input, "FW(")
          /\ Occurrences(fixed_content, ")") =
                 Occurrences(fix_input, ")") + Occurrences(fix_input, "FW)")

(***************************************************************************)
(* Scenarios and totality of LatexParser.parse, checked under Spec          *)
(***************************************************************************)

SectionIntro == <<BS, "s", "e", "c", "t", "i", "o", "n", "{", "I", "n", "t", "r", "o", "}">>
HelloWorld == <<"H", "e", "l", "l", "o", " ", "w", "o", "r", "l", "d", ".">>

\* \section{Intro}, a newline, Hello world.
Scenario1Source == SectionIntro \o <<NL>> \o HelloWorld

\* the positions of the parsed elements of the type ty
ParsedOfType(ty) == {k \in 1..Len(elements) : elements[k].type = ty}

\* parse returned one Command element \section{Intro} with should_translate
\* true, immediately followed by the one Text element
OneCommandThenOneText ==
    /\ Cardinality(ParsedOfType("command")) = 1
    /\ Cardinality(ParsedOfType("text")) = 1
    /\ \E k \in ParsedOfType("command") :
          /\ elements[k].content = SectionIntro
          /\ elements[k].should_translate
          /\ k + 1 \in ParsedOfType("text")

\* C11 as the specification states it: the Text element's content is
\* Hello world.
C11_Scenario1AsStated ==
    (pc = "parsed" /\ latex_content = Scenario1Source) =>
        /\ OneCommandThenOneText
        /\ \A k \in ParsedOfType("text") : elements[k].content = HelloWorld

\* C11: parsing \section{Intro}, a newline and Hello world. yields exactly one
\* Command element with content \section{Intro} and should_translate true,
\* immediately followed by exactly one Text element, whose content is the
\* newline followed by Hello world. (the whole gap after the command)
C11_Scenario1 ==
    (pc = "parsed" /\ latex_content = Scenario1Source) =>
        /\ OneCommandThenOneText
        /\ \A k \in ParsedOfType("text") :
              /\ elements[k].content = <<NL>> \o HelloWorld
              /\ Strip(elements[k].content) = HelloWorld
              /\ elements[k].start_pos = Len(SectionIntro)
              /\ elements[k].end_pos = Len(Scenario1Source)

\* the scenario's source has been parsed into two elements
C11_Witness ==
    /\ pc = "parsed"
    /\ latex_content = Scenario1Source
    /\ Len(elements) = 2
    /\ elements[1].type = "command"
    /\ elements[2].type = "text"

\* no math, environment, command, citation, reference, label or comment
\* pattern occurs in the source
NoPatternOccurs(source) ==
    /\ _find_math_elements(source) = <<>>
    /\ _find_environments(source) = <<>>
    /\ _find_commands(source) = <<>>
    /\ _find_citations_and_references(source) = <<>>
    /\ _find_comments(source) = <<>>

ElementTypes == {"text", "command", "environment", "math_inline", "math_display",
                 "citation", "reference", "label", "comment"}

\* C12: parse is total: it returns a list of elements for every input, and
\* when no pattern occurs in the input, the empty and the whitespace-only
\* string included, it returns exactly one Text element with start_pos 0,
\* end_pos len(source) and the whole input as content
C12_ParseTotal ==
    pc = "parsed" =>
        /\ \A k \in 1..Len(elements) :
              /\ elements[k].type \in ElementTypes
              /\ 0 <= elements[k].start_pos
              /\ elements[k].start_pos <= elements[k].end_pos
              /\ elements[k].end_pos <= Len(latex_content)
        /\ NoPatternOccurs(latex_content) =>
              /\ Len(elements) = 1
              /\ elements[1].type = "text"
              /\ elements[1].start_pos = 0
              /\ elements[1].end_pos = Len(latex_content)
              /\ elements[1].content = latex_content

\* a whitespace-only source has been parsed into its one Text element
C12_Witness ==
    /\ pc = "parsed"
    /\ latex_content = <<" ", NL>>
    /\ NoPatternOccurs(latex_content)
    /\ Len(elements) = 1
    /\ elements[1].content = <<" ", NL>>

(***************************************************************************)
(* Error handling of the analyzer and the validator, checked under         *)
(* SpecProject                                                              *)
(***************************************************************************)

\* the definition directives of the project contents, each with the kind and
\* the name of what it defines
DefinitionDirectives == {
    [text |-> <<BS, "d", "e", "f", BS, "q", "{", "x", "}">>,
     kind |-> "command", name |-> <<"q">>],
    [text |-> <<BS, "d", "e", "f", BS, "q", "{", "3", "}">>,
     kind |-> "command", name |-> <<"q">>],
    [text |-> <<BS, "n", "e", "w", "c", "o", "m", "m", "a", "n", "d", "{", BS, "f", "o", "o", "}">>,
     kind |-> "command", name |-> <<"f", "o", "o">>],
    [text |-> <<BS, "r", "e", "n", "e", "w", "c", "o", "m", "m", "a", "n", "d", "{", BS, "f", "o", "o", "}">>,
     kind |-> "command", name |-> <<"f", "o", "o">>],
    [text |-> <<BS, "n", "e", "w", "e", "n", "v", "i", "r", "o", "n", "m", "e", "n", "t", "{", "t", "h", "m", "}">>,
     kind |-> "environment", name |-> <<"t", "h", "m">>],
    [text |-> <<BS, "r", "e", "n", "e", "w", "e", "n", "v", "i", "r", "o", "n", "m", "e", "n", "t", "{", "t", "h", "m", "}">>,
     kind |-> "environment", name |-> <<"t", "h", "m">>] }

\* the file f has registered what the directive d defines, with itself as
\* source_file
Registered(f, d) ==
    LET defs == IF d.kind = "command" THEN f.custom_commands ELSE f.custom_environments
    IN \E j \in 1..Len(defs) : defs[j].name = d.name /\ defs[j].source_file = f.path

\* every definition directive of every analysed file is registered
DirectivesRegistered ==
    \A k \in 1..Len(files) :
        \A d \in DefinitionDirectives :
            Contains(files[k].content, d.text) => Registered(files[k], d)

\* C13: analysis never aborts on file content: analyze_project completes
\* without raising for any file contents, and every definition directive of a
\* file is registered as a custom Command or Environment of that file with
\* source_file set to that file; \def\name{body} with a non-numeric body
\* included
C13_AnalysisNeverAborts ==
    /\ pc # "analysis_raised"
    /\ Analyzed => DirectivesRegistered

\* C14: an unreadable discovered file is recorded in files with empty content,
\* every other file is analysed, and the validation report holds a
\* warning-level issue for the unreadable file
C14_UnreadableFile ==
    pc = "validated" =>
        \A k \in 1..Len(project_root) :
            ~project_root[k].readable =>
                /\ \A j \in 1..Len(project_root) : HasFile(files, project_root[j].path)
                /\ FileAt(files, project_root[k].path).content = <<>>
                /\ \E i \in 1..Len(validation.issues) :
                      /\ validation.issues[i].severity = "warning"
                      /\ validation.issues[i].file_path = project_root[k].path

\* the conventional names, in their fixed order
ConventionalNames == <<MainTex, PaperTex,
                       <<"d", "o", "c", "u", "m", "e", "n", "t", ".", "t", "e", "x">>,
                       <<"t", "h", "e", "s", "i", "s", ".", "t", "e", "x">>,
                       ArticleTex>>

\* the positions of the conventional names that are discovered files
ConventionalFound == {k \in 1..Len(ConventionalNames) : ConventionalNames[k] \in Discovered}

\* the positions of the discovered files whose content, as far as it can be
\* read, contains \documentclass
WithDocumentclass ==
    {j \in 1..Len(project_root) :
        /\ project_root[j].readable
        /\ Contains(project_root[j].content,
                    <<BS, "d", "o", "c", "u", "m", "e", "n", "t", "c", "l", "a", "s", "s">>)}

\* _find_main_file has run
MainFileChosen == pc \in {"analyzed", "analysis_raised", "validated"}

\* C15: main-file selection priority: a discovered conventional name wins, the
\* first in the fixed order, whatever the contents and the discovery order;
\* otherwise the first discovered file whose content contains \documentclass;
\* otherwise the first discovered file; main_file is None only when no file
\* was discovered
C15_MainFilePriority ==
    MainFileChosen =>
        /\ ConventionalFound # {} =>
              main_file = ConventionalNames[Min(ConventionalFound)]
        /\ (ConventionalFound = {} /\ WithDocumentclass # {}) =>
              main_file = project_root[Min(WithDocumentclass)].path
        /\ (ConventionalFound = {} /\ WithDocumentclass = {} /\ project_root # <<>>) =>
              main_file = project_root[1].path
        /\ main_file = None <=> project_root = <<>>

\* paper.tex with \documentclass is discovered before main.tex without it,
\* and main.tex is the main file
C15_Witness ==
    /\ pc = "analyzed"
    /\ Len(project_root) = 2
    /\ project_root[1].path = PaperTex
    /\ 1 \in WithDocumentclass
    /\ project_root[2].path = MainTex
    /\ 2 \notin WithDocumentclass
    /\ main_file = MainTex

\* main_file was chosen by the last-resort rule
FallbackChosen ==
    /\ project_root # <<>>
    /\ ConventionalFound = {}
    /\ WithDocumentclass = {}

StylisticTypes == {"unknown_command", "unmatched_braces", "unmatched_math_delimiters",
                   "missing_command_dependency"}

StructuralTypes == {"missing_main_file", "missing_documentclass",
                    "missing_begin_document", "missing_end_document",
                    "missing_dependency", "missing_label", "unmatched_environment",
                    "unclosed_environment"}

\* C16: when main_file was chosen by the last-resort rule, validate_project
\* reports a warning-severity issue about that selection: a warning for the
\* main file that is none of the stylistic findings about its content
C16_FallbackWarning ==
    (pc = "validated" /\ FallbackChosen) =>
        \E i \in 1..Len(validation.issues) :
            /\ validation.issues[i].severity = "warning"
            /\ validation.issues[i].file_path \in {main_file, <<>>}
            /\ validation.issues[i].type \notin StylisticTypes

\* the uses of a reference command in the project contents, each with its key
ReferenceUses == {
    [text |-> <<BS, "r", "e", "f", "{", "a", "}">>, key |-> <<"a">>],
    [text |-> <<BS, "e", "q", "r", "e", "f", "{", "b", "}">>, key |-> <<"b">>],
    [text |-> <<BS, "C", "r", "e", "f", "*", "{", "a", "}">>, key |-> <<"a">>] }

\* \label{key}
LabelOf(key) == <<BS, "l", "a", "b", "e", "l", "{">> \o key \o <<"}">>

\* some file of the project holds \label{key}
Labelled(key) == \E j \in 1..Len(files) : Contains(files[j].content, LabelOf(key))

\* the positions of the missing_label issues about the key, attributed to
\* the file at path
MissingLabelIssues(path, key) ==
    {i \in 1..Len(validation.issues) :
        /\ validation.issues[i].type = "missing_label"
        /\ validation.issues[i].file_path = path
        /\ validation.issues[i].message =
               path \o <<":", " ", BS, "r", "e", "f", "{">> \o key \o <<"}">>}

C18_StylisticNeverBlocks ==
    pc = "validated" =>
        /\ \A i \in 1..Len(validation.issues) :
              /\ validation.issues[i].type \in StylisticTypes
                    => validation.issues[i].severity = "warning"
              /\ validation.issues[i].type \in StructuralTypes
                    => validation.issues[i].severity = "error"
        /\ (\A i \in 1..Len(validation.issues) :
                validation.issues[i].type \in StylisticTypes)
              => validation.is_compilable

\* a result whose findings are stylistic ones of two types or more, and which
\* is compilable
C18_Witness ==
    /\ pc = "validated"
    /\ \A i \in 1..Len(validation.issues) : validation.issues[i].type \in StylisticTypes
    /\ Cardinality({validation.issues[i].type : i \in 1..Len(validation.issues)}) >= 2
    /\ validation.is_compilable

(***************************************************************************)
(* Properties of LatexValidator.auto_fix_issues and                        *)
(* get_compilation_safe_context, checked under SpecProject                  *)
(***************************************************************************)

\* the paths of the files whose fixed content differs from their content
ChangedByFix ==
    {files[k].path : k \in {j \in 1..Len(files) :
                               _fix_file_content(files[j].content) # files[j].content}}

\* C19: auto_fix_issues is a pure report over the model: the mapping it
\* returns holds exactly the files whose fixed content differs from their
\* current content, each mapped to the fixed content, and the call leaves
\* every files[path].content, the dependency graph, the compilation order and
\* the validator's issues list unchanged and runs no validation
C19_AutoFixPureReport ==
    [][AutoFixIssues =>
          /\ DOMAIN fixed_files' = ChangedByFix
          /\ \A path \in ChangedByFix :
                fixed_files'[path] = _fix_file_content(FileAt(files, path).content)
          /\ UNCHANGED <<files, dependency_graph, compilation_order, issues>>
          /\ validation' = AliasedResult(validation, fixes_applied')
      ]_vars

\* after a validation that found issues, auto_fix_issues has returned one of
\* two files, with its fixed content, and the file holds its old content
C19_Witness ==
    /\ pc = "auto_fixed"
    /\ Len(files) = 2
    /\ issues # <<>>
    /\ validation # NoResult
    /\ Cardinality(DOMAIN fixed_files) = 1
    /\ \A path \in DOMAIN fixed_files :
          /\ FileAt(files, path).content = <<"$", " ", "x", " ", "$">>
          /\ fixed_files[path] = <<"$", "x", "$">>

\* the custom commands that the file at path uses and that a file other than
\* it defines
UsedAndDefinedElsewhere(path) ==
    {cmd \in FileAt(files, path).used_commands :
        \E k \in 1..Len(files) :
            /\ files[k].path # path
            /\ \E j \in 1..Len(files[k].custom_commands) :
                  files[k].custom_commands[j].name = cmd}

\* C20: safe-context critical commands: for a file P, the critical_commands
\* of get_compilation_safe_context(P) are exactly the custom commands that P
\* uses and that a file other than P defines; a custom command defined and
\* used only in P is not listed
C20_CriticalCommands ==
    (pc = "context_returned" /\ HasFile(files, context_path)) =>
        Range(context.critical_commands) = UsedAndDefinedElsewhere(context_path)

(***************************************************************************)
(* Properties of LatexValidator.test_compilation, checked under SpecCompile *)
(***************************************************************************)

\* the with block of the returned call was entered and left
WithBlockLeft == run_result # NoResult

\* C21: test_compilation returns a result record and propagates no exception
\* on every path: without a main file success is false and the compiler is
\* not started, with exit code 0 success is true, with another exit code, a
\* timeout or any other exception success is false; and the scratch directory
\* the call created does not exist any more once it has returned
C21_TestCompilation ==
    pc = "compiled" =>
        /\ raised = "none"
        /\ compilation # NoResult
        /\ compilation.success \in BOOLEAN
        /\ tmp_dir # "exists"
        /\ main_file = None =>
              /\ ~compilation.success
              /\ ~WithBlockLeft
              /\ tmp_dir = "none"
        /\ WithBlockLeft =>
              /\ tmp_dir = "removed"
              /\ compilation.success =
                    (run_result.kind = "returned" /\ run_result.returncode = 0)

\* a test compilation whose compiler timed out has returned
C21_Witness ==
    /\ pc = "compiled"
    /\ WithBlockLeft
    /\ run_result.kind = "TimeoutExpired"
    /\ ~compilation.success
    /\ tmp_dir = "removed"

(***************************************************************************)
(* Properties of the global registries, checked under SpecProject           *)
(***************************************************************************)

\* the greatest position of content at which text occurs, -1 when there is none
LastOccurrence(content, text) ==
    Max({-1} \cup {p \in 0..(Len(content) - Len(text)) : StartsAt(content, p, text)})

\* the definition directives of the project contents in full
FullDirectives == {
    [text |-> <<BS, "d", "e", "f", BS, "q", "{", "3", "}">>,
     kind |-> "command", name |-> <<"q">>],
    [text |-> <<BS, "n", "e", "w", "c", "o", "m", "m", "a", "n", "d", "{", BS, "f", "o", "o", "}", "[", "2", "]", "{", "x", "}">>,
     kind |-> "command", name |-> <<"f", "o", "o">>],
    [text |-> <<BS, "r", "e", "n", "e", "w", "c", "o", "m", "m", "a", "n", "d", "{", BS, "f", "o", "o", "}", "{", "z", "}">>,
     kind |-> "command", name |-> <<"f", "o", "o">>],
    [text |-> <<BS, "n", "e", "w", "e", "n", "v", "i", "r", "o", "n", "m", "e", "n", "t", "{", "t", "h", "m", "}", "{", "a", "}", "{", "b", "}">>,
     kind |-> "environment", name |-> <<"t", "h", "m">>],
    [text |-> <<BS, "r", "e", "n", "e", "w", "e", "n", "v", "i", "r", "o", "n", "m", "e", "n", "t", "{", "t", "h", "m", "}", "[", "1", "]", "{", "c", "}", "{", "d", "}">>,
     kind |-> "environment", name |-> <<"t", "h", "m">>] }

\* the directives of the content of f that define the command or environment d
\* defines
SameNameIn(f, d) ==
    {e \in FullDirectives : /\ e.kind = d.kind /\ e.name = d.name
                            /\ Contains(f.content, e.text)}

\* d is, among the directives of f for its name, the one that occurs last in
\* the text of f
LastInText(f, d) ==
    /\ d \in SameNameIn(f, d)
    /\ \A e \in SameNameIn(f, d) :
          LastOccurrence(f.content, e.text) <= LastOccurrence(f.content, d.text)

\* no file after the k-th, in discovery order, defines what d defines
LastDefiningFile(k, d) ==
    \A j \in (k + 1)..Len(files) : SameNameIn(files[j], d) = {}

\* the Command or Environment the directive d registers for the file f
DefinitionOf(f, d) ==
    IF d.kind = "command" THEN CustomCommandsOf(d.text, f.path)[1]
    ELSE CustomEnvironmentsOf(d.text, f.path)[1]

\* the registry entry for what d defines
RegistryEntry(d) ==
    IF d.kind = "command" THEN global_commands[d.name] ELSE global_environments[d.name]

\* C22: the global registries are last-writer-wins: after analyze_project,
\* global_commands[name] and global_environments[name] are the definition
\* seen last when the files are scanned in discovery order and the
\* definitions of one file are taken in the order they occur in its text
C22_LastWriterWins ==
    pc = "analyzed" =>
        \A k \in 1..Len(files) :
            \A d \in FullDirectives :
                (LastInText(files[k], d) /\ LastDefiningFile(k, d)) =>
                    RegistryEntry(d) = DefinitionOf(files[k], d)

\* the number of times path is listed in compilation_order
TimesOrdered(path) ==
    Cardinality({i \in 1..Len(compilation_order) : compilation_order[i] = path})

\* C23: cycle handling: _determine_compilation_order returns, without raising,
\* for every dependency graph, one with cycles or a file that depends on itself
\* included (a node met again while it is on the active stack is skipped), and
\* compilation_order holds every file of the project exactly once
C23_CycleHandling ==
    Analyzed =>
        /\ \A path \in Range(PathsOf(files)) : TimesOrdered(path) = 1
        /\ Range(compilation_order) \subseteq Range(PathsOf(files))

\* three files, one of which includes itself and two of which include each
\* other, have been ordered
C23_Witness ==
    /\ pc = "analyzed"
    /\ Len(files) = 3
    /\ \E F \in DOMAIN dependency_graph : <<F, F>> \in GraphEdges
    /\ \E F, D \in DOMAIN dependency_graph :
          F # D /\ <<F, D>> \in GraphEdges /\ <<D, F>> \in GraphEdges
    /\ Len(compilation_order) = 3

(***************************************************************************)
(* Properties of the element types of LatexParser.parse, checked under Spec *)
(***************************************************************************)

\* the elements at positions i and j of the parsed list have the same span
SameSpan(i, j) ==
    /\ elements[i].start_pos = elements[j].start_pos
    /\ elements[i].end_pos = elements[j].end_pos

\* C24: exclusivity of citation, reference and label: each occurrence of
\* \cite{...}, of a \ref-class command or of \label{...} appears in the output
\* of parse as a Citation, Reference or Label element only, and no Command
\* element covers the same span
C24_Exclusivity ==
    pc = "parsed" =>
        \A i \in ParsedOfType("citation") \cup ParsedOfType("reference")
                 \cup ParsedOfType("label") :
            /\ \A j \in ParsedOfType("command") : ~SameSpan(i, j)
            /\ \A j \in 1..Len(elements) : SameSpan(i, j) => j = i

\* C25: display priority over inline math: in the output of parse no MathInline
\* span intersects a MathDisplay span, an inline match that lies inside a
\* display match found before being discarded
C25_DisplayPriority ==
    pc = "parsed" =>
        \A i \in ParsedOfType("math_inline") :
            \A j \in ParsedOfType("math_display") :
                ~Intersect(elements[i], elements[j])

(***************************************************************************)
(* Properties of LatexParser.extract_translatable_text, checked under Spec  *)
(***************************************************************************)

\* the element e is math, a citation, a reference, a label, a comment or an
\* environment whose name is non-translatable
Protected(e) ==
    \/ e.type \in {"math_inline", "math_display", "citation", "reference",
                   "label", "comment"}
    \/ e.type = "environment" /\ e.metadata.environment \in NON_TRANSLATABLE_ENVIRONMENTS

\* the span [start, end) shares a position with the span of the element e
SpanMeets(start, end, e) ==
    \E q \in 0..Len(latex_content) :
        /\ start <= q /\ q < end
        /\ e.start_pos <= q /\ q < e.end_pos

\* C27: math and non-translatable content is never translated: no span that
\* extract_translatable_text returns, and no Text element, intersects the span
\* of a MathInline, MathDisplay, Citation, Reference, Label or Comment element
\* or of an Environment element whose name is non-translatable, also when the
\* math or the environment contains commands
C27_ProtectedNeverTranslated ==
    /\ pc \in {"parsed", "extracted"} =>
          \A i \in ParsedOfType("text") :
              \A j \in 1..Len(elements) :
                  Protected(elements[j]) => ~Intersect(elements[i], elements[j])
    /\ pc = "extracted" =>
          \A k \in 1..Len(translated_parts) :
              \A j \in 1..Len(elements) :
                  Protected(elements[j]) =>
                      ~SpanMeets(translated_parts[k][2], translated_parts[k][3],
                                 elements[j])

\* the text of every extracted tuple is the source between its start and end
ExtractedTextIsSlice ==
    \A k \in 1..Len(translated_parts) :
        /\ 0 <= translated_parts[k][2]
        /\ translated_parts[k][2] <= translated_parts[k][3]
        /\ translated_parts[k][3] <= Len(latex_content)
        /\ translated_parts[k][1] =
              Slice(latex_content, translated_parts[k][2], translated_parts[k][3])

\* the extracted tuples are in the order of their starts and pairwise disjoint
ExtractedSortedDisjoint ==
    \A k \in 1..(Len(translated_parts) - 1) :
        /\ translated_parts[k][2] <= translated_parts[k + 1][2]
        /\ translated_parts[k][3] <= translated_parts[k + 1][2]

\* C28: the tuples (text, start, end) extract_translatable_text(S) returns are
\* sorted by start, pairwise disjoint, within [0, len(S)], and text is
\* S[start:end]; consequently preserve_structure(S, extract_translatable_text(S))
\* is S
C28_ExtractedSpans ==
    /\ pc = "extracted" => ExtractedTextIsSlice /\ ExtractedSortedDisjoint
    /\ pc = "merged" => merged = latex_content

\* the texts around an element have been extracted and spliced back unchanged
C28_Witness ==
    /\ pc = "merged"
    /\ Len(translated_parts) = 2
    /\ Len(elements) = 3
    /\ merged = latex_content

(***************************************************************************)
(* Properties of BaseLatexTranslator._validate_translated_content, checked  *)
(* under SpecTranslation                                                    *)
(***************************************************************************)

\* the content analyze_project read for the discovered file path
DiscoveredContent(path) ==
    LET k == CHOOSE j \in 1..Len(project_root) : project_root[j].path = path
    IN IF project_root[k].readable THEN project_root[k].content ELSE <<>>

\* every file of the analyzer has the content it had when the call was made
ContentsAsBefore ==
    /\ Len(files) = Len(project_root)
    /\ \A k \in 1..Len(files) : files[k].content = DiscoveredContent(files[k].path)

\* C26: _validate_translated_content overwrites files[path].content with the
\* translated content for the validation and the auto-fix, and leaves
\* files[path].content equal to its value before the call on every exit path,
\* the ones on which the validation or the auto-fix raises included
C26_ContentRestored ==
    /\ pc = "validating" =>
          /\ FileAt(files, translated_file.path).content = translated_file.content
          /\ original_content = DiscoveredContent(translated_file.path)
    /\ pc = "translation_validated" => ContentsAsBefore

\* the auto-fix raised after the file was overwritten with different content,
\* and the call has returned
C26_Witness ==
    /\ pc = "translation_validated"
    /\ raised = "auto_fix_issues raised"
    /\ translated_file.content # original_content
    /\ FileAt(files, translated_file.path).content = original_content

(***************************************************************************)
(* Properties of the environment check, checked under SpecProject           *)
(***************************************************************************)

\* the name of the \end{X} at position i of s, <<>> when there is none
EndName(s, i) ==
    IF ~StartsAt(s, i, EndLit) THEN <<>>
    ELSE LET q == FindChar(s, {"}"}, i + Len(EndLit))
         IN IF q = NoMatch THEN <<>> ELSE Slice(s, i + Len(EndLit), q)

RECURSIVE NestingFrom(_, _, _)
\* from position i of s on, with the environments of open_envs open, every
\* \end{X} closes the environment opened last and nothing stays open
NestingFrom(s, i, open_envs) ==
    IF i >= Len(s) THEN open_envs = <<>>
    ELSE IF BeginName(s, i) # <<>>
    THEN NestingFrom(s, i + 1, Append(open_envs, BeginName(s, i)))
    ELSE IF EndName(s, i) # <<>>
    THEN /\ open_envs # <<>>
         /\ open_envs[Len(open_envs)] = EndName(s, i)
         /\ NestingFrom(s, i + 1, SubSeq(open_envs, 1, Len(open_envs) - 1))
    ELSE NestingFrom(s, i + 1, open_envs)

\* every \begin{X} of s has its \end{X} and the environments are properly nested
WellNested(s) == NestingFrom(s, 0, <<>>)

\* the positions of the returned issues of the file F that are an
\* unmatched_environment or an unclosed_environment issue
EnvironmentIssues(F) ==
    {i \in 1..Len(validation.issues) :
        /\ validation.issues[i].type \in {"unmatched_environment", "unclosed_environment"}
        /\ validation.issues[i].file_path = F}

\* C30: no false environment errors: for a file in which every \begin{X} has
\* its \end{X} and the environments are properly nested, an environment inside
\* one of another name included, validate_project reports no
\* unmatched_environment and no unclosed_environment issue
C30_NoFalseEnvironmentErrors ==
    pc = "validated" =>
        \A k \in 1..Len(files) :
            WellNested(files[k].content) => EnvironmentIssues(files[k].path) = {}

(***************************************************************************)
(* Properties of repeated validation, checked under SpecRevalidate          *)
(***************************************************************************)

\* C29: validation is repeatable: every call of validate_project starts from
\* an empty issue list, so for an unchanged model a call returns the issues
\* the call before it returned, in the same order, also when auto_fix_issues or
\* get_compilation_safe_context was called in between, and the issues of an
\* earlier call never accumulate into a later result
C29_Repeatable ==
    [][(ValidateProject \/ RevalidateProject) /\ validation # NoResult =>
          /\ validation'.issues = validation.issues
          /\ issues' = validation'.issues
      ]_vars

\* a validation that found issues was repeated after an auto-fix that changed
\* a file and after a context was returned
C29_Witness ==
    /\ pc = "validated"
    /\ issues # <<>>
    /\ DOMAIN fixed_files # {}
    /\ context # NoResult
    /\ validation.issues = issues

====
